---------------------------- MODULE Spec2Model ----------------------------
(***************************************************************************)
(* GraphRAG: the hybrid retrieval engine (retriever.py), the graph         *)
(* persistence writer and the extraction fan-out (ingest.py).              *)
(*                                                                         *)
(* Texts are sequences of tokens: the empty string is << >>, a whitespace  *)
(* token is " " or "\n", and every other token stands for a run of         *)
(* non-whitespace text.                                                    *)
(***************************************************************************)
EXTENDS Integers, Sequences, FiniteSets, TLC

(***************************************************************************)
(* Bounds of the model.                                                    *)
(***************************************************************************)
\* the k of the similarity search: at most this many snippets come back
MaxK == 2
\* ExtractionUnits in the batch handed to one graph write
MaxUnits == 2
\* calls of _write_to_neo4j made with the same batch (re-ingestions)
MaxWriteCalls == 2
\* config.max_concurrent_llm_calls (10 unless the environment sets it)
MaxConcurrentLlmCalls == 2
\* chunks the splitter makes of one document
MaxChunks == 3
\* pipelines that ingest_document_async has running at the same time
MaxPipelines == 2
\* the group size of add_documents (100 in the program), scaled down
BatchSize == 2
\* characters of a text handed to sanitize_text or to a constructor
MaxRawLen == 4
\* the length sanitize_text cuts to (500 in the program), scaled down
SanitizeLimit == 3
\* the length an entity type is cut to (100 in the program), scaled down
TypeLimit == 2
\* tokens of a relation handed to normalize_relation_type
MaxRelationTokens == 3
\* entities and relationships handed to the KnowledgeGraph constructor
MaxEntities == 3
MaxRelationships == 2
\* drivers GraphDatabase.driver creates in one run of the program
MaxDrivers == 3
\* TestNode nodes the store can come to hold
MaxTestNodes == 2
\* calls of initialize_neo4j_schema
MaxSchemaCalls == 3
\* calls of _write_to_vectorstore with the chunks of one document
MaxVectorCalls == 2
\* tokens of a language-model response
MaxResponseTokens == 6

(***************************************************************************)
(* Program constants.                                                      *)
(***************************************************************************)
\* stop_after_attempt(3) of the retry decorators
MaxAttempts == 3

VARIABLES
    \* ---- HybridRetriever.retrieve --------------------------------------
    rpc,             \* position of the retrieve coroutine
    request,         \* the QueryRequest's search flags
    vector_context,  \* local of retrieve
    graph_context,   \* local of retrieve
    attempt,         \* attempt number of the retried call in progress
    response,        \* the QueryResponse returned, or NoResponse
    neo4j_graph,     \* HybridRetriever._neo4j_graph: cached wrapper or none
    vectorOutcome,   \* what the vector branch did in this call
    graphOutcome,    \* what the graph branch did in this call
    graphResult,     \* the text the translation chain produced in this call
    synthCalls,      \* language-model calls made for synthesis in this call
    \* ---- the graph store and IngestionPipeline._write_to_neo4j ---------
    gnodes,          \* the store's Entity nodes, in creation order
    gedges,          \* the store's relationships, in creation order
    wpc,             \* position of _write_to_neo4j
    knowledge_graphs,\* its argument
    pendingOps,      \* the session.run calls this execution has yet to make
    wattempt,        \* attempt number of the retried write
    runCalls,        \* session.run calls made by the execution in progress
    writeCalls,      \* calls of _write_to_neo4j so far
    written,         \* the store as the previous successful call left it
    \* ---- IngestionPipeline: the extraction fan-out ---------------------
    constructed,     \* the IngestionPipeline objects that exist
    semaphore,       \* per pipeline: the value of self.semaphore
    ipc,             \* per pipeline: position of ingest_document
    tasks,           \* per pipeline: the chunk tasks handed to gather
    extracted,       \* per pipeline: what _extract_knowledge_parallel returned
    ingest_result,   \* per pipeline: the dict ingest_document returned
    \* ---- the vector store and IngestionPipeline._write_to_vectorstore --
    vstore,          \* the entries of the collection, in insertion order
    vpc,             \* position of _write_to_vectorstore
    vattempt,        \* attempt number of the retried vector write
    addCalls,        \* add_documents calls made by ingest_document calls
    \* ---- models.py: the validation layer ------------------------------
    model_call,      \* the function or constructor called last, with its input
    model_result,    \* what it returned, or the error it raised
    \* ---- database.py: the graph connections ---------------------------
    write_driver,    \* Neo4jConnectionManager._write_driver
    read_driver,     \* Neo4jConnectionManager._read_driver
    handles,         \* per component: the graph connections its fields hold
    requested,       \* the credentials each component has asked for
    statements,      \* the statements the retrieval engine has issued
    \* ---- database.py: drivers, permission check, schema ----------------
    next_id,         \* the drivers GraphDatabase.driver has created so far
    closed,          \* the drivers close() was called on
    returned,        \* what the last call on the connection manager returned
    test_nodes,      \* the store's TestNode nodes
    probe,           \* the last verify_read_only_permissions call
    schema,          \* the store's index and constraint on Entity.name
    schema_call,     \* the last initialize_neo4j_schema call
    schema_calls,    \* calls of initialize_neo4j_schema so far
    \* ---- two pipelines writing their batches into one graph store -----
    cw_batches,      \* per pipeline: the batch given to _write_to_neo4j
    cw_pending,      \* per pipeline: the session.run calls yet to make
    \* ---- _write_to_vectorstore called on its own ----------------------
    vcall,           \* the arguments of the call in progress or last made
    vsubmitted,      \* the list handed to add_documents by the last attempt
    vdone,           \* calls of _write_to_vectorstore that returned
    verrors          \* add_documents calls that raised

rvars == <<rpc, request, vector_context, graph_context, attempt, response,
           neo4j_graph, vectorOutcome, graphOutcome, graphResult, synthCalls>>

wvars == <<gnodes, gedges, wpc, knowledge_graphs, pendingOps,
           wattempt, runCalls, writeCalls, written>>

xvars == <<constructed, semaphore, ipc, tasks, extracted, ingest_result>>

vsvars == <<vstore, vpc, vattempt, addCalls>>

mvars == <<model_call, model_result>>

pvars == <<write_driver, read_driver, handles, requested, statements>>

dvars == <<next_id, closed, returned, test_nodes, probe, schema, schema_call,
           schema_calls>>

cwvars == <<cw_batches, cw_pending>>

vwvars == <<vcall, vsubmitted, vdone, verrors>>

vars == <<rvars, wvars, xvars, vsvars, mvars, pvars, dvars, cwvars, vwvars>>

(***************************************************************************)
(* Texts.                                                                  *)
(***************************************************************************)
Whitespace == {" ", "\n"}

Range(s) == {s[i] : i \in 1..Len(s)}

\* the elements of a finite set of integers in ascending order
RECURSIVE Ascending(_)
Ascending(S) ==
    IF S = {} THEN << >>
    ELSE LET m == CHOOSE x \in S : \A y \in S : x <= y
         IN <<m>> \o Ascending(S \ {m})

\* an Optional[str] is << >> for None and <<s>> for the string s
None == << >>
Some(x) == <<x>>
\* v or ""
OrEmpty(v) == IF v = None THEN "" ELSE v[1]

SeqsUpTo(S, n) == UNION {[1..k -> S] : k \in 0..n}

\* str.lstrip()
RECURSIVE LStrip(_)
LStrip(t) ==
    IF t # << >> /\ Head(t) \in Whitespace THEN LStrip(Tail(t)) ELSE t

\* str.rstrip()
RECURSIVE RStrip(_)
RStrip(t) ==
    IF t # << >> /\ t[Len(t)] \in Whitespace
    THEN RStrip(SubSeq(t, 1, Len(t) - 1))
    ELSE t

\* str.strip()
Strip(t) == RStrip(LStrip(t))

(***************************************************************************)
(* The retrieval engine.                                                   *)
(***************************************************************************)
NO_INFO == <<"I couldn't find any relevant information to answer your question.">>

NoResponse == [kind |-> "none"]

QueryResponse(a, vc, gc, src) ==
    [kind |-> "QueryResponse", answer |-> a, vector_context |-> vc,
     graph_context |-> gc, sources |-> src]

\* what the collaborators can hand back
Snippets == {<<"chunk one">>, <<"chunk two">>}
VectorResults == SeqsUpTo(Snippets, MaxK)
ChainResults == {<< >>, <<"Alice works at Acme">>, <<"I", " ", "don't know">>}
GraphErrors == {"ServiceUnavailable", "CypherSyntaxError"}
LlmContents == {<<"Alice works at Acme.">>, <<" ", "Alice works at Acme.", "\n">>,
                <<"\n">>, NO_INFO}

Requests == [use_vector_search : BOOLEAN, use_graph_search : BOOLEAN]

\* an except branch that hands back the error alone
GraphErrorOnly(e) == <<e>>

\* the except branch of _graph_search_sync
GraphUnavailable(e) == <<"Graph", " ", "search", " ", "unavailable:", " ", e>>

\* the fusion test of retrieve: not vector_context and not graph_context
NoContextMissingNot(vc, gc) == vc = << >> /\ gc # << >>
NoContext(vc, gc) == vc = << >> /\ gc = << >>

\* the sources list retrieve builds after synthesis
Sources(vc, gc) ==
    (IF vc # << >> THEN <<"Vector Search">> ELSE << >>)
        \o (IF gc # << >> THEN <<"Knowledge Graph">> ELSE << >>)

\* a step of the retriever leaves the ingestion side alone
RetrieverFrame ==
    UNCHANGED <<wvars, xvars, vsvars, mvars, pvars, dvars, cwvars, vwvars>>

RetrieverInit ==
    /\ rpc = "idle"
    /\ request = [use_vector_search |-> TRUE, use_graph_search |-> TRUE]
    /\ vector_context = << >>
    /\ graph_context = << >>
    /\ attempt = 1
    /\ response = NoResponse
    /\ neo4j_graph = "none"
    /\ vectorOutcome = "none"
    /\ graphOutcome = "none"
    /\ graphResult = << >>
    /\ synthCalls = 0

\* retrieve is entered: the locals are initialised
RetrieveCall ==
    /\ rpc \in {"idle", "returned", "raised"}
    /\ RetrieverFrame
    /\ \E req \in Requests : request' = req
    /\ vector_context' = << >>
    /\ graph_context' = << >>
    /\ attempt' = 1
    /\ response' = NoResponse
    /\ vectorOutcome' = "none"
    /\ graphOutcome' = "none"
    /\ graphResult' = << >>
    /\ synthCalls' = 0
    /\ rpc' = "vector"
    /\ UNCHANGED neo4j_graph

\* if request.use_vector_search is false the branch is not entered
VectorSkipped ==
    /\ rpc = "vector"
    /\ RetrieverFrame
    /\ ~request.use_vector_search
    /\ vectorOutcome' = "skipped"
    /\ rpc' = "graph"
    /\ UNCHANGED <<request, vector_context, graph_context, attempt, response,
                   neo4j_graph, graphOutcome, graphResult, synthCalls>>

\* an attempt of _vector_search whose similarity_search returns
VectorSearchReturns ==
    /\ rpc = "vector"
    /\ RetrieverFrame
    /\ request.use_vector_search
    /\ \E results \in VectorResults : vector_context' = results
    /\ vectorOutcome' = "returned"
    /\ attempt' = 1
    /\ rpc' = "graph"
    /\ UNCHANGED <<request, graph_context, response, neo4j_graph,
                   graphOutcome, graphResult, synthCalls>>

\* an attempt of _vector_search whose similarity_search raises: retried,
\* and after the last attempt re-raised into retrieve's except clause
VectorSearchRaises ==
    /\ rpc = "vector"
    /\ RetrieverFrame
    /\ request.use_vector_search
    /\ \/ /\ attempt < MaxAttempts
          /\ attempt' = attempt + 1
          /\ UNCHANGED <<rpc, vectorOutcome>>
       \/ /\ attempt = MaxAttempts
          /\ attempt' = 1
          /\ vectorOutcome' = "failed"
          /\ rpc' = "graph"
    /\ UNCHANGED <<request, vector_context, graph_context, response,
                   neo4j_graph, graphOutcome, graphResult, synthCalls>>

\* a graph branch that finds the wrapper whatever the request says
GraphSkippedAfterConnecting ==
    /\ rpc = "graph"
    /\ RetrieverFrame
    /\ ~request.use_graph_search
    /\ graphOutcome' = "skipped"
    /\ neo4j_graph' = "read-only"
    /\ rpc' = "fusion"
    /\ UNCHANGED <<request, vector_context, graph_context, attempt, response,
                   vectorOutcome, graphResult, synthCalls>>

\* if request.use_graph_search is false the branch is not entered
GraphSkipped ==
    /\ rpc = "graph"
    /\ RetrieverFrame
    /\ ~request.use_graph_search
    /\ graphOutcome' = "skipped"
    /\ rpc' = "fusion"
    /\ UNCHANGED <<request, vector_context, graph_context, attempt, response,
                   neo4j_graph, vectorOutcome, graphResult, synthCalls>>

\* _graph_search_sync runs to its return: the wrapper exists or is created,
\* the chain is invoked and result.get("result", "") is handed back
GraphSearchSyncReturns ==
    /\ rpc = "graph"
    /\ RetrieverFrame
    /\ request.use_graph_search
    /\ neo4j_graph' = "read-only"
    /\ \E result \in ChainResults :
          /\ graphResult' = result
          /\ graph_context' = result
    /\ graphOutcome' = "returned"
    /\ attempt' = 1
    /\ rpc' = "fusion"
    /\ UNCHANGED <<request, vector_context, response, vectorOutcome, synthCalls>>

\* _graph_search_sync catches a failure of the wrapper's construction or of
\* the chain and returns the "unavailable" text
GraphSearchSyncCatches ==
    /\ rpc = "graph"
    /\ RetrieverFrame
    /\ request.use_graph_search
    /\ \/ /\ neo4j_graph = "none"            \* Neo4jGraph(...) raised
          /\ UNCHANGED neo4j_graph
       \/ neo4j_graph' = "read-only"         \* the chain raised
    /\ \E e \in GraphErrors : graph_context' = GraphUnavailable(e)
    /\ graphOutcome' = "caught"
    /\ attempt' = 1
    /\ rpc' = "fusion"
    /\ UNCHANGED <<request, vector_context, response, vectorOutcome,
                   graphResult, synthCalls>>

\* run_in_executor itself raises (the executor is shut down): _graph_search
\* is retried and after the last attempt re-raised into retrieve's except
GraphExecutorRaises ==
    /\ rpc = "graph"
    /\ RetrieverFrame
    /\ request.use_graph_search
    /\ \/ /\ attempt < MaxAttempts
          /\ attempt' = attempt + 1
          /\ UNCHANGED <<rpc, graphOutcome>>
       \/ /\ attempt = MaxAttempts
          /\ attempt' = 1
          /\ graphOutcome' = "raised"
          /\ rpc' = "fusion"
    /\ UNCHANGED <<request, vector_context, graph_context, response,
                   neo4j_graph, vectorOutcome, graphResult, synthCalls>>

\* both contexts empty: the fixed answer, no synthesis
FusionNoContext ==
    /\ rpc = "fusion"
    /\ RetrieverFrame
    /\ NoContext(vector_context, graph_context)
    /\ response' = QueryResponse(NO_INFO, << >>, << >>, << >>)
    /\ rpc' = "returned"
    /\ UNCHANGED <<request, vector_context, graph_context, attempt,
                   neo4j_graph, vectorOutcome, graphOutcome, graphResult,
                   synthCalls>>

\* an attempt of _synthesize_answer whose language-model call returns
SynthesizeReturns ==
    /\ rpc = "fusion"
    /\ RetrieverFrame
    /\ ~NoContext(vector_context, graph_context)
    /\ synthCalls' = synthCalls + 1
    /\ \E content \in LlmContents :
          response' = QueryResponse(Strip(content), vector_context,
                                    graph_context,
                                    Sources(vector_context, graph_context))
    /\ rpc' = "returned"
    /\ UNCHANGED <<request, vector_context, graph_context, attempt,
                   neo4j_graph, vectorOutcome, graphOutcome, graphResult>>

\* an attempt of _synthesize_answer whose language-model call raises:
\* retried, and after the last attempt re-raised out of retrieve
SynthesizeRaises ==
    /\ rpc = "fusion"
    /\ RetrieverFrame
    /\ ~NoContext(vector_context, graph_context)
    /\ synthCalls' = synthCalls + 1
    /\ \/ /\ attempt < MaxAttempts
          /\ attempt' = attempt + 1
          /\ UNCHANGED rpc
       \/ /\ attempt = MaxAttempts
          /\ attempt' = attempt
          /\ rpc' = "raised"
    /\ UNCHANGED <<request, vector_context, graph_context, response,
                   neo4j_graph, vectorOutcome, graphOutcome, graphResult>>

RetrieverNext ==
    \/ RetrieveCall
    \/ VectorSkipped
    \/ VectorSearchReturns
    \/ VectorSearchRaises
    \/ GraphSkipped
    \/ GraphSearchSyncReturns
    \/ GraphSearchSyncCatches
    \/ GraphExecutorRaises
    \/ FusionNoContext
    \/ SynthesizeReturns
    \/ SynthesizeRaises


(***************************************************************************)
(* The graph store and the graph persistence writer.                       *)
(***************************************************************************)
Entity(n, t, d) == [name |-> n, type |-> t, description |-> d]

Relationship(s, r, t, d) ==
    [source |-> s, relation_type |-> r, target |-> t, description |-> d]

\* str.lower() on the names that occur
Lower(n) ==
    CASE n = "Alice" -> "alice"
      [] n = "ALICE" -> "alice"
      [] n = "Bob" -> "bob"
      [] n = "Carol" -> "carol"
      [] OTHER -> n

\* a deduplication keyed by the name as written
RECURSIVE DedupEntitiesCaseSensitive(_, _)
DedupEntitiesCaseSensitive(v, seen) ==
    IF v = << >> THEN << >>
    ELSE LET key == Head(v).name
         IN IF key \in seen
            THEN DedupEntitiesCaseSensitive(Tail(v), seen)
            ELSE <<Head(v)>>
                    \o DedupEntitiesCaseSensitive(Tail(v), seen \cup {key})

\* KnowledgeGraph.deduplicate_entities: first-seen order, keyed by lower name
RECURSIVE DedupEntities(_, _)
DedupEntities(v, seen) ==
    IF v = << >> THEN << >>
    ELSE LET key == Lower(Head(v).name)
         IN IF key \in seen
            THEN DedupEntities(Tail(v), seen)
            ELSE <<Head(v)>> \o DedupEntities(Tail(v), seen \cup {key})

\* KnowledgeGraph.deduplicate_relationships
RECURSIVE DedupRelationships(_, _)
DedupRelationships(v, seen) ==
    IF v = << >> THEN << >>
    ELSE LET rel == Head(v)
             key == <<Lower(rel.source), rel.relation_type, Lower(rel.target)>>
         IN IF key \in seen
            THEN DedupRelationships(Tail(v), seen)
            ELSE <<rel>> \o DedupRelationships(Tail(v), seen \cup {key})

KnowledgeGraph(es, rs) ==
    [entities |-> DedupEntities(es, {}),
     relationships |-> DedupRelationships(rs, {})]

\* the ExtractionUnits a chunk can yield
UnitPool ==
    { KnowledgeGraph(<<Entity("Alice", "PERSON", None), Entity("Bob", "ORG", None)>>,
                     <<Relationship("Alice", "WORKS_AT", "Bob", None)>>),
      KnowledgeGraph(<<Entity("alice", "ORG", Some("lower case"))>>,
                     <<Relationship("alice", "MANAGES", "Bob", Some("runs it")),
                       Relationship("Alice", "WORKS_AT", "Bob", Some("since 2020"))>>),
      KnowledgeGraph(<< >>,
                     <<Relationship("Bob", "WORKS_AT", "Carol", None)>>),
      KnowledgeGraph(<<Entity("Alice", "ORG", Some("renamed")),
                       Entity("ALICE", "PERSON", None)>>,
                     << >>),
      KnowledgeGraph(<< >>, << >>),
      KnowledgeGraph(<<Entity("Carol", "PERSON", None)>>,
                     <<Relationship("Carol", "WORKS_AT", "Alice", None),
                       Relationship("Carol", "MANAGES", "Alice", None),
                       Relationship("Carol", "WORKS_AT", "Bob", Some("too")),
                       Relationship("carol", "WORKS_AT", "alice", Some("dup"))>>) }

Batches == SeqsUpTo(UnitPool, MaxUnits)

\* the first loop of _write_to_neo4j: all entities of all units, flattened
RECURSIVE AllEntities(_)
AllEntities(kgs) ==
    IF kgs = << >> THEN << >>
    ELSE [i \in 1..Len(Head(kgs).entities) |->
             [name |-> Head(kgs).entities[i].name,
              type |-> Head(kgs).entities[i].type,
              description |-> OrEmpty(Head(kgs).entities[i].description)]]
         \o AllEntities(Tail(kgs))

\* the second loop: all relationships of all units, flattened
RECURSIVE AllRelationships(_)
AllRelationships(kgs) ==
    IF kgs = << >> THEN << >>
    ELSE [i \in 1..Len(Head(kgs).relationships) |->
             [source |-> Head(kgs).relationships[i].source,
              target |-> Head(kgs).relationships[i].target,
              relation_type |-> Head(kgs).relationships[i].relation_type,
              description |-> OrEmpty(Head(kgs).relationships[i].description)]]
         \o AllRelationships(Tail(kgs))

\* the keys of rels_by_type in insertion order
RECURSIVE TypesInOrder(_, _)
TypesInOrder(rels, seen) ==
    IF rels = << >> THEN << >>
    ELSE IF Head(rels).relation_type \in seen
         THEN TypesInOrder(Tail(rels), seen)
         ELSE <<Head(rels).relation_type>>
                  \o TypesInOrder(Tail(rels), seen \cup {Head(rels).relation_type})

\* rels_by_type[rel_type]
RelsOfType(rels, rel_type) ==
    LET sel == SelectSeq(rels, LAMBDA r : r.relation_type = rel_type)
    IN [i \in 1..Len(sel) |->
           [source |-> sel[i].source, target |-> sel[i].target,
            description |-> sel[i].description]]

\* one query per relationship instead of one per type
RelationshipOpsPerRecord(all_relationships) ==
    [i \in 1..Len(all_relationships) |->
        [kind |-> "relationships",
         rel_type |-> all_relationships[i].relation_type,
         rels |-> RelsOfType(<<all_relationships[i]>>,
                             all_relationships[i].relation_type)]]

\* the loop over rels_by_type.items(): one UNWIND query per relation type
RelationshipOps(all_relationships) ==
    LET types == TypesInOrder(all_relationships, {})
    IN [i \in 1..Len(types) |->
           [kind |-> "relationships", rel_type |-> types[i],
            rels |-> RelsOfType(all_relationships, types[i])]]

\* the entity statement issued whatever the flattened list holds
PlannedOpsUnguarded(kgs) ==
    LET all_entities == AllEntities(kgs)
        all_relationships == AllRelationships(kgs)
    IN <<[kind |-> "entities", entities |-> all_entities]>>
       \o (IF all_relationships # << >>
           THEN RelationshipOps(all_relationships)
           ELSE << >>)

\* the session.run calls one execution of _write_to_neo4j makes, in order
PlannedOps(kgs) ==
    LET all_entities == AllEntities(kgs)
        all_relationships == AllRelationships(kgs)
    IN (IF all_entities # << >>
        THEN <<[kind |-> "entities", entities |-> all_entities]>>
        ELSE << >>)
       \o (IF all_relationships # << >>
           THEN RelationshipOps(all_relationships)
           ELSE << >>)

\* MATCH (:Entity {name: n}): the matching nodes
MatchNodes(nodes, n) == {i \in 1..Len(nodes) : nodes[i].name = n}

\* CREATE instead of MERGE: a new node whatever exists
CreateEntity(nodes, entity) ==
    Append(nodes, [name |-> entity.name, type |-> entity.type,
                   description |-> entity.description])

\* MERGE (e:Entity {name: entity.name}) SET e.type, e.description; the
\* last_updated property, which no query of the program reads, is left out
MergeEntity(nodes, entity) ==
    LET m == MatchNodes(nodes, entity.name)
        props == [name |-> entity.name, type |-> entity.type,
                  description |-> entity.description]
    IN IF m = {} THEN Append(nodes, props)
       ELSE [i \in 1..Len(nodes) |-> IF i \in m THEN props ELSE nodes[i]]

\* UNWIND $entities AS entity MERGE ... SET ...
RECURSIVE UnwindEntities(_, _)
UnwindEntities(nodes, entities) ==
    IF entities = << >> THEN nodes
    ELSE UnwindEntities(MergeEntity(nodes, Head(entities)), Tail(entities))

\* CREATE instead of MERGE: a new relationship whatever exists
CreateEdge(edges, s, t, rel_type, description) ==
    Append(edges, [source |-> s, target |-> t, rel_type |-> rel_type,
                   description |-> description])

\* MERGE (source)-[r:rel_type]->(target) SET r.description
MergeEdge(edges, s, t, rel_type, description) ==
    LET m == {j \in 1..Len(edges) :
                 /\ edges[j].source = s
                 /\ edges[j].target = t
                 /\ edges[j].rel_type = rel_type}
        props == [source |-> s, target |-> t, rel_type |-> rel_type,
                  description |-> description]
    IN IF m = {} THEN Append(edges, props)
       ELSE [j \in 1..Len(edges) |-> IF j \in m THEN props ELSE edges[j]]

\* the rows the two MATCH clauses bind for one rel: pairs of node ids
RECURSIVE MergeEdges(_, _, _, _)
MergeEdges(edges, pairs, rel_type, description) ==
    IF pairs = << >> THEN edges
    ELSE MergeEdges(MergeEdge(edges, Head(pairs)[1], Head(pairs)[2],
                              rel_type, description),
                    Tail(pairs), rel_type, description)

\* the endpoints are created when they are missing
EndpointNodesCreated(nodes, rel) ==
    LET withSource ==
            IF MatchNodes(nodes, rel.source) = {}
            THEN Append(nodes, [name |-> rel.source, type |-> "",
                                description |-> ""])
            ELSE nodes
    IN IF MatchNodes(withSource, rel.target) = {}
       THEN Append(withSource, [name |-> rel.target, type |-> "",
                                description |-> ""])
       ELSE withSource

\* the nodes after the two MATCH clauses of the relationship query: MATCH
\* creates nothing
EndpointNodes(nodes, rel) == nodes

\* MATCH (source) MATCH (target): every pair of matching nodes
MatchedPairs(nodes, rel) ==
    LET sources == Ascending(MatchNodes(nodes, rel.source))
        targets == Ascending(MatchNodes(nodes, rel.target))
    IN [k \in 1..(Len(sources) * Len(targets)) |->
           <<sources[((k - 1) \div Len(targets)) + 1],
             targets[((k - 1) % Len(targets)) + 1]>>]

\* UNWIND $rels AS rel MATCH ... MATCH ... MERGE ... SET ...
RECURSIVE UnwindRels(_, _, _)
UnwindRels(store, rel_type, rels) ==
    IF rels = << >> THEN store
    ELSE LET nodes == EndpointNodes(store.nodes, Head(rels))
             edges == MergeEdges(store.edges, MatchedPairs(nodes, Head(rels)),
                                 rel_type, Head(rels).description)
         IN UnwindRels([nodes |-> nodes, edges |-> edges], rel_type, Tail(rels))

\* the effect of one session.run on the store
ApplyOp(store, op) ==
    IF op.kind = "entities"
    THEN [nodes |-> UnwindEntities(store.nodes, op.entities),
          edges |-> store.edges]
    ELSE UnwindRels(store, op.rel_type, op.rels)

\* a whole execution that meets no store error
RECURSIVE ApplyOps(_, _)
ApplyOps(store, ops) ==
    IF ops = << >> THEN store
    ELSE ApplyOps(ApplyOp(store, Head(ops)), Tail(ops))

EmptyStore == [nodes |-> << >>, edges |-> << >>]

\* the stores an earlier ingestion of one unit leaves behind
InitStores ==
    {EmptyStore} \cup {ApplyOps(EmptyStore, PlannedOps(<<u>>)) : u \in UnitPool}

NotWritten == [nodes |-> << >>, edges |-> << >>, valid |-> FALSE]

WriterAtRest ==
    /\ gnodes = << >>
    /\ gedges = << >>
    /\ wpc = "idle"
    /\ knowledge_graphs = << >>
    /\ pendingOps = << >>
    /\ wattempt = 1
    /\ runCalls = 0
    /\ writeCalls = 0
    /\ written = NotWritten

WriterInit ==
    /\ \E store \in InitStores :
          /\ gnodes = store.nodes
          /\ gedges = store.edges
    /\ wpc = "idle"
    /\ knowledge_graphs \in Batches
    /\ pendingOps = << >>
    /\ wattempt = 1
    /\ runCalls = 0
    /\ writeCalls = 0
    /\ written = NotWritten

\* a step of the writer leaves the retriever alone
WriterFrame ==
    UNCHANGED <<rvars, xvars, vsvars, mvars, pvars, dvars, cwvars, vwvars>>

\* _write_to_neo4j is called with the batch: both lists are flattened, the
\* session is opened; with nothing to write the call returns at once
WriteToNeo4jCall ==
    /\ wpc \in {"idle", "done", "failed"}
    /\ WriterFrame
    /\ writeCalls < MaxWriteCalls
    /\ writeCalls' = writeCalls + 1
    /\ written' = IF wpc = "done"
                  THEN [nodes |-> gnodes, edges |-> gedges, valid |-> TRUE]
                  ELSE written
    /\ wattempt' = 1
    /\ runCalls' = 0
    /\ pendingOps' = PlannedOps(knowledge_graphs)
    /\ wpc' = IF PlannedOps(knowledge_graphs) = << >> THEN "done" ELSE "running"
    /\ UNCHANGED <<gnodes, gedges, knowledge_graphs>>

\* the next session.run succeeds; after the last one the call returns
SessionRunReturns ==
    /\ wpc = "running"
    /\ WriterFrame
    /\ LET store == ApplyOp([nodes |-> gnodes, edges |-> gedges],
                            Head(pendingOps))
       IN /\ gnodes' = store.nodes
          /\ gedges' = store.edges
    /\ runCalls' = runCalls + 1
    /\ pendingOps' = Tail(pendingOps)
    /\ wpc' = IF Tail(pendingOps) = << >> THEN "done" ELSE "running"
    /\ UNCHANGED <<knowledge_graphs, wattempt, writeCalls, written>>

\* the next session.run raises, its query committed or not: the exception
\* leaves _write_to_neo4j, and the retry policy waits or gives up
SessionRunRaises ==
    /\ wpc = "running"
    /\ WriterFrame
    /\ \/ LET store == ApplyOp([nodes |-> gnodes, edges |-> gedges],
                               Head(pendingOps))
          IN /\ gnodes' = store.nodes
             /\ gedges' = store.edges
       \/ UNCHANGED <<gnodes, gedges>>
    /\ runCalls' = runCalls + 1
    /\ wpc' = IF wattempt < MaxAttempts THEN "backoff" ELSE "failed"
    /\ UNCHANGED <<knowledge_graphs, pendingOps, wattempt, writeCalls, written>>

\* the wait is over: _write_to_neo4j runs again from its first line
WriteRetry ==
    /\ wpc = "backoff"
    /\ WriterFrame
    /\ wattempt' = wattempt + 1
    /\ runCalls' = 0
    /\ pendingOps' = PlannedOps(knowledge_graphs)
    /\ wpc' = "running"
    /\ UNCHANGED <<gnodes, gedges, knowledge_graphs, writeCalls, written>>

WriterNext ==
    \/ WriteToNeo4jCall
    \/ SessionRunReturns
    \/ SessionRunRaises
    \/ WriteRetry

(***************************************************************************)
(* The validation layer (models.py).  The texts handed to sanitize_text    *)
(* and to the constructors are sequences of single characters; a relation  *)
(* is a sequence of words and single separator characters.                 *)
(***************************************************************************)
\* the characters \w matches
WordChars == {"a", "b", "A", "B", "_"}

\* the punctuation the first substitution of sanitize_text keeps
Punctuation == {"-", ".", ",", "!", "?"}

\* the characters the inputs are made of
Alphabet == {"a", "B", " ", "-", "<", ">", ";"}

RawTexts == SeqsUpTo(Alphabet, MaxRawLen)

\* t[:n]
Take(t, n) == SubSeq(t, 1, IF Len(t) < n THEN Len(t) ELSE n)

\* re.sub(r'[^\w\s\-.,!?]', '', text)
RemoveDisallowed(t) ==
    SelectSeq(t, LAMBDA c : c \in WordChars \cup Whitespace \cup Punctuation)

\* the length of the run of dashes t starts with
RECURSIVE DashRun(_)
DashRun(t) == IF t # << >> /\ Head(t) = "-" THEN 1 + DashRun(Tail(t)) ELSE 0

\* re.sub(r'--+', '', text)
RECURSIVE RemoveDashRuns(_)
RemoveDashRuns(t) ==
    IF t = << >> THEN << >>
    ELSE IF DashRun(t) >= 2
         THEN RemoveDashRuns(SubSeq(t, DashRun(t) + 1, Len(t)))
         ELSE <<Head(t)>> \o RemoveDashRuns(Tail(t))

\* a sanitize_text that removes the dash runs before the other characters
SanitizeDashesFirst(text) ==
    IF text = None \/ text[1] = << >> THEN << >>
    ELSE Take(RemoveDisallowed(RemoveDashRuns(Strip(text[1]))), SanitizeLimit)

\* a sanitize_text that leaves the whitespace around the text in place
SanitizeUnstripped(text) ==
    IF text = None \/ text[1] = << >> THEN << >>
    ELSE Take(RemoveDashRuns(RemoveDisallowed(text[1])), SanitizeLimit)

\* sanitize_text(text), text being None or Some(string)
sanitize_text(text) ==
    IF text = None \/ text[1] = << >> THEN << >>
    ELSE Take(RemoveDashRuns(RemoveDisallowed(Strip(text[1]))), SanitizeLimit)

\* str.upper() on one character
UpperChar(c) == CASE c = "a" -> "A" [] c = "b" -> "B" [] OTHER -> c

ALLOWED_RELATION_TYPES ==
    {"WORKS_AT", "LOCATED_IN", "PART_OF", "RELATED_TO",
     "MANAGES", "REPORTS_TO", "OWNS", "FOUNDED",
     "ACQUIRED", "INVESTED_IN", "COLLABORATED_WITH", "EMPLOYED_BY",
     "BASED_IN", "MEMBER_OF", "SUBSIDIARY_OF", "PARTNER_OF",
     "COMPETES_WITH", "SUPPLIES_TO", "INTERACTS_WITH"}

RELATION_MAPPING ==
    "CEO_OF" :> "MANAGES"
    @@ "IS_CEO" :> "MANAGES"
    @@ "CEO" :> "MANAGES"
    @@ "WORKS_FOR" :> "WORKS_AT"
    @@ "EMPLOYED_AT" :> "WORKS_AT"
    @@ "EMPLOYEE_OF" :> "WORKS_AT"
    @@ "LOCATED_AT" :> "LOCATED_IN"
    @@ "IN_LOCATION" :> "LOCATED_IN"
    @@ "HAS_LOCATION" :> "LOCATED_IN"
    @@ "IS_PART_OF" :> "PART_OF"
    @@ "BELONGS_TO" :> "PART_OF"
    @@ "COMPONENT_OF" :> "PART_OF"
    @@ "RELATED" :> "RELATED_TO"
    @@ "ASSOCIATED_WITH" :> "RELATED_TO"
    @@ "CONNECTED_TO" :> "RELATED_TO"

\* how a name of the two tables reads as words and underscores
Spelling(name) ==
    CASE name = "WORKS_AT" -> <<"WORKS", "_", "AT">>
      [] name = "LOCATED_IN" -> <<"LOCATED", "_", "IN">>
      [] name = "PART_OF" -> <<"PART", "_", "OF">>
      [] name = "RELATED_TO" -> <<"RELATED", "_", "TO">>
      [] name = "MANAGES" -> <<"MANAGES">>
      [] name = "REPORTS_TO" -> <<"REPORTS", "_", "TO">>
      [] name = "OWNS" -> <<"OWNS">>
      [] name = "FOUNDED" -> <<"FOUNDED">>
      [] name = "ACQUIRED" -> <<"ACQUIRED">>
      [] name = "INVESTED_IN" -> <<"INVESTED", "_", "IN">>
      [] name = "COLLABORATED_WITH" -> <<"COLLABORATED", "_", "WITH">>
      [] name = "EMPLOYED_BY" -> <<"EMPLOYED", "_", "BY">>
      [] name = "BASED_IN" -> <<"BASED", "_", "IN">>
      [] name = "MEMBER_OF" -> <<"MEMBER", "_", "OF">>
      [] name = "SUBSIDIARY_OF" -> <<"SUBSIDIARY", "_", "OF">>
      [] name = "PARTNER_OF" -> <<"PARTNER", "_", "OF">>
      [] name = "COMPETES_WITH" -> <<"COMPETES", "_", "WITH">>
      [] name = "SUPPLIES_TO" -> <<"SUPPLIES", "_", "TO">>
      [] name = "INTERACTS_WITH" -> <<"INTERACTS", "_", "WITH">>
      [] name = "CEO_OF" -> <<"CEO", "_", "OF">>
      [] name = "IS_CEO" -> <<"IS", "_", "CEO">>
      [] name = "CEO" -> <<"CEO">>
      [] name = "WORKS_FOR" -> <<"WORKS", "_", "FOR">>
      [] name = "EMPLOYED_AT" -> <<"EMPLOYED", "_", "AT">>
      [] name = "EMPLOYEE_OF" -> <<"EMPLOYEE", "_", "OF">>
      [] name = "LOCATED_AT" -> <<"LOCATED", "_", "AT">>
      [] name = "IN_LOCATION" -> <<"IN", "_", "LOCATION">>
      [] name = "HAS_LOCATION" -> <<"HAS", "_", "LOCATION">>
      [] name = "IS_PART_OF" -> <<"IS", "_", "PART", "_", "OF">>
      [] name = "BELONGS_TO" -> <<"BELONGS", "_", "TO">>
      [] name = "COMPONENT_OF" -> <<"COMPONENT", "_", "OF">>
      [] name = "RELATED" -> <<"RELATED">>
      [] name = "ASSOCIATED_WITH" -> <<"ASSOCIATED", "_", "WITH">>
      [] name = "CONNECTED_TO" -> <<"CONNECTED", "_", "TO">>

\* the words and separators the relations handed in are made of
RelationWords == {"ceo", "CEO", "of", "OF", "works", "at", "foo"}
RelationSeparators == {" ", "_", "-"}

RawRelations == SeqsUpTo(RelationWords \cup RelationSeparators, MaxRelationTokens)

\* a normalisation that leaves the letter case alone
KeepCase(t) == t

\* str.upper() on one word
UpperToken(t) ==
    CASE t = "ceo" -> "CEO"
      [] t = "of" -> "OF"
      [] t = "works" -> "WORKS"
      [] t = "at" -> "AT"
      [] t = "foo" -> "FOO"
      [] OTHER -> t

\* re.sub(r'[^\w_]', '_', relation)
ReplaceNonWord(t) ==
    [i \in 1..Len(t) |-> IF t[i] \in {" ", "\n", "-"} THEN "_" ELSE t[i]]

\* re.sub(r'_+', '_', relation)
RECURSIVE CollapseUnderscores(_)
CollapseUnderscores(t) ==
    IF t = << >> THEN << >>
    ELSE IF Len(t) >= 2 /\ t[1] = "_" /\ t[2] = "_"
         THEN CollapseUnderscores(Tail(t))
         ELSE <<Head(t)>> \o CollapseUnderscores(Tail(t))

\* relation.strip('_')
RECURSIVE StripUnderscores(_)
StripUnderscores(t) ==
    IF t # << >> /\ Head(t) = "_" THEN StripUnderscores(Tail(t))
    ELSE IF t # << >> /\ t[Len(t)] = "_"
         THEN StripUnderscores(SubSeq(t, 1, Len(t) - 1))
         ELSE t

\* the first four statements of normalize_relation_type
Cleaned(relation) ==
    LET stripped == Strip(relation)
        upper == [i \in 1..Len(stripped) |-> UpperToken(stripped[i])]
    IN StripUnderscores(CollapseUnderscores(ReplaceNonWord(upper)))

\* a normalisation without the fallback: a relation that is neither a
\* canonical type nor an alias keeps a name of its own
NormalizeWithoutFallback(relation) ==
    LET r == Cleaned(relation)
    IN IF \E n \in ALLOWED_RELATION_TYPES : Spelling(n) = r
       THEN CHOOSE n \in ALLOWED_RELATION_TYPES : Spelling(n) = r
       ELSE IF \E k \in DOMAIN RELATION_MAPPING : Spelling(k) = r
            THEN RELATION_MAPPING[CHOOSE k \in DOMAIN RELATION_MAPPING :
                                     Spelling(k) = r]
            ELSE "UNRECOGNISED"

\* normalize_relation_type(relation)
normalize_relation_type(relation) ==
    LET r == Cleaned(relation)
    IN IF \E n \in ALLOWED_RELATION_TYPES : Spelling(n) = r
       THEN CHOOSE n \in ALLOWED_RELATION_TYPES : Spelling(n) = r
       ELSE IF \E k \in DOMAIN RELATION_MAPPING : Spelling(k) = r
            THEN RELATION_MAPPING[CHOOSE k \in DOMAIN RELATION_MAPPING :
                                     Spelling(k) = r]
            ELSE "RELATED_TO"

\* what a constructor raises
ValidationError == [kind |-> "ValidationError"]

\* a required str field with Field(..., min_length=1): the value must be
\* there, and its length is checked on the input, before the field
\* validators (which run after the field's own validation) see it
Required(v) == v # None /\ Len(v[1]) >= 1

\* sanitize_fields
SanitizeField(v) == IF v = None THEN None ELSE Some(sanitize_text(v))

\* Entity.normalize_type
NormalizeType(v) ==
    Take([i \in 1..Len(Strip(v)) |-> UpperChar(Strip(v)[i])], TypeLimit)

\* Entity(name=..., type=..., description=...)
ValidatedEntity(name, type, description) ==
    IF Required(name) /\ Required(type)
    THEN [kind |-> "Entity",
          name |-> sanitize_text(name),
          type |-> NormalizeType(sanitize_text(type)),
          description |-> SanitizeField(description)]
    ELSE ValidationError

\* Relationship(source=..., target=..., relation_type=..., description=...);
\* no canonical type is longer than the 100 characters it is cut to
ValidatedRelationship(source, target, relation_type, description) ==
    IF Required(source) /\ Required(target) /\ Required(relation_type)
    THEN [kind |-> "Relationship",
          source |-> sanitize_text(source),
          target |-> sanitize_text(target),
          relation_type |-> normalize_relation_type(relation_type[1]),
          description |-> SanitizeField(description)]
    ELSE ValidationError

\* the values the fields of a constructor call take
RawFields ==
    {None, Some(<< >>), Some(<<"a">>), Some(<<" ">>), Some(<<"<", ">">>),
     Some(<<"a", ";", "B">>), Some(<<"-", "-">>), Some(<<" ", "a", "B", "a">>)}

RawDescriptions == {None, Some(<<"a">>), Some(<<";">>)}

RawRelationFields ==
    {None, Some(<< >>), Some(<<"works", " ", "at">>), Some(<<"-">>),
     Some(<<"foo">>)}

\* the Entity and Relationship objects handed to the KnowledgeGraph
\* constructor
EntityPool ==
    {Entity("Alice", "PERSON", None), Entity("alice", "ORG", Some("lower case")),
     Entity("ALICE", "PERSON", None), Entity("Bob", "ORG", None)}

RelationshipPool ==
    {Relationship("Alice", "WORKS_AT", "Bob", None),
     Relationship("alice", "WORKS_AT", "Bob", Some("dup")),
     Relationship("Alice", "MANAGES", "Bob", None),
     Relationship("Bob", "WORKS_AT", "Alice", None)}

ModelsAtRest ==
    /\ model_call = [fn |-> "none"]
    /\ model_result = [kind |-> "none"]

\* a call into models.py touches nothing else
ModelsFrame ==
    UNCHANGED <<rvars, wvars, xvars, vsvars, pvars, dvars, cwvars, vwvars>>

\* every behaviour is one call of one function or constructor, made from
\* the state in which none has been made
SanitizeText ==
    /\ model_call.fn = "none"
    /\ ModelsFrame
    /\ \E text \in {None} \cup {Some(t) : t \in RawTexts} :
          /\ model_call' = [fn |-> "sanitize_text", text |-> text]
          /\ model_result' = [kind |-> "text", value |-> sanitize_text(text)]

NormalizeRelationType ==
    /\ model_call.fn = "none"
    /\ ModelsFrame
    /\ \E relation \in RawRelations :
          /\ model_call' = [fn |-> "normalize_relation_type",
                            relation |-> relation]
          /\ model_result' = [kind |-> "relation_type",
                              value |-> normalize_relation_type(relation)]

ConstructEntity ==
    /\ model_call.fn = "none"
    /\ ModelsFrame
    /\ \E name \in RawFields, type \in RawFields,
          description \in RawDescriptions :
          /\ model_call' = [fn |-> "Entity", name |-> name, type |-> type,
                            description |-> description]
          /\ model_result' = ValidatedEntity(name, type, description)

ConstructRelationship ==
    /\ model_call.fn = "none"
    /\ ModelsFrame
    /\ \E source \in RawFields, target \in RawFields,
          relation_type \in RawRelationFields,
          description \in RawDescriptions :
          /\ model_call' = [fn |-> "Relationship", source |-> source,
                            target |-> target,
                            relation_type |-> relation_type,
                            description |-> description]
          /\ model_result' = ValidatedRelationship(source, target,
                                                   relation_type, description)

ConstructKnowledgeGraph ==
    /\ model_call.fn = "none"
    /\ ModelsFrame
    /\ \E es \in SeqsUpTo(EntityPool, MaxEntities),
          rs \in SeqsUpTo(RelationshipPool, MaxRelationships) :
          /\ model_call' = [fn |-> "KnowledgeGraph", entities |-> es,
                            relationships |-> rs]
          /\ model_result' = [kind |-> "KnowledgeGraph",
                              value |-> KnowledgeGraph(es, rs)]

\* a language-model response: a sequence of tokens, the code fence (three
\* backticks), the language tag, a line break and two JSON objects among
\* them
FENCE == "<fence>"
JsonObjects == {"{A}", "{B}"}
ResponseTokens == {FENCE, "json", "\n"} \cup JsonObjects
Responses == SeqsUpTo(ResponseTokens, MaxResponseTokens)

\* the unit the records of a JSON object make
UnitOfJson(object) ==
    IF object = "{A}"
    THEN KnowledgeGraph(<<Entity("Alice", "PERSON", None),
                          Entity("Bob", "ORG", None)>>,
                        <<Relationship("Alice", "WORKS_AT", "Bob", None)>>)
    ELSE KnowledgeGraph(<< >>, << >>)

\* if content.startswith("```json"): content = content[7:]
StripFenceStart(content) ==
    IF Len(content) >= 2 /\ content[1] = FENCE /\ content[2] = "json"
    THEN SubSeq(content, 3, Len(content))
    ELSE content

\* if content.endswith("```"): content = content[:-3]
StripFenceEnd(content) ==
    IF content # << >> /\ content[Len(content)] = FENCE
    THEN SubSeq(content, 1, Len(content) - 1)
    ELSE content

\* response.content.strip(), the two fence tests, strip() again
Unfenced(content) == Strip(StripFenceEnd(StripFenceStart(Strip(content))))

JSONDecodeError == [kind |-> "JSONDecodeError"]

\* json.loads(content) and the constructors: the text must be one JSON
\* value, whitespace around it allowed
ParseJson(content) ==
    LET text == Strip(content)
    IN IF Len(text) = 1 /\ text[1] \in JsonObjects
       THEN [kind |-> "KnowledgeGraph", value |-> UnitOfJson(text[1])]
       ELSE JSONDecodeError

\* _extract_knowledge_from_chunk from the response to the unit or to the
\* JSONDecodeError that makes it return None
ParseResponse ==
    /\ model_call.fn = "none"
    /\ ModelsFrame
    /\ \E content \in Responses :
          /\ model_call' = [fn |-> "parse_response", content |-> content]
          /\ model_result' = ParseJson(Unfenced(content))

ModelsNext ==
    \/ SanitizeText
    \/ NormalizeRelationType
    \/ ConstructEntity
    \/ ConstructRelationship
    \/ ConstructKnowledgeGraph
    \/ ParseResponse

(***************************************************************************)
(* The extraction fan-out.                                                 *)
(***************************************************************************)
Pipelines == 1..MaxPipelines

\* a chunk task as gather starts it: first attempt, before the semaphore
NewTask ==
    [pc |-> "acquire", attempt |-> 1, result |-> "none", calls |-> 0,
     unit |-> None, reply |-> "none"]

\* the KnowledgeGraphs a parsed and validated reply can amount to
ExtractedUnits ==
    { KnowledgeGraph(<<Entity("Alice", "PERSON", None), Entity("Bob", "ORG", None)>>,
                     <<Relationship("Alice", "WORKS_AT", "Bob", None)>>),
      KnowledgeGraph(<<Entity("Carol", "PERSON", None)>>,
                     <<Relationship("Carol", "MANAGES", "Alice", None)>>) }

\* a policy that gives up one attempt early
AttemptsLeftOffByOne(task) == task.attempt < MaxAttempts - 1

\* stop_after_attempt(3): the policy retries while fewer attempts were made
AttemptsLeft(task) == task.attempt < MaxAttempts

\* a handler that lets the JSONDecodeError reach the retry policy
DiscardRetried(task) ==
    IF AttemptsLeft(task)
    THEN [task EXCEPT !.pc = "backoff", !.reply = "unparseable"]
    ELSE [task EXCEPT !.pc = "done", !.result = "failed",
                      !.reply = "unparseable"]

\* except json.JSONDecodeError: logged, and None is returned
Discard(task) ==
    [task EXCEPT !.pc = "done", !.result = "discarded",
                 !.reply = "unparseable"]

\* ingest_document has not returned
NoIngestResult == [kind |-> "none"]

\* the dict returned when the text splitter yields no chunk
NoChunksResult ==
    [kind |-> "result", success |-> FALSE, error |-> "No text chunks created"]

\* the dict returned by the except branch of ingest_document
FailureResult(e) == [kind |-> "result", success |-> FALSE, error |-> e]

\* the dict returned after both writes
SuccessResult(num_chunks, num_entities, num_relationships) ==
    [kind |-> "result", success |-> TRUE, num_chunks |-> num_chunks,
     num_entities |-> num_entities,
     num_relationships |-> num_relationships]

\* a gather that gives up the results from the first failed task on
RECURSIVE GatheredUntilFailure(_)
GatheredUntilFailure(results) ==
    IF results = << >> \/ Head(results).result = "failed" THEN << >>
    ELSE (IF Head(results).result = "unit"
          THEN <<Head(results).unit[1]>> ELSE << >>)
            \o GatheredUntilFailure(Tail(results))

\* the loop over the gathered results: exceptions and None are skipped,
\* every KnowledgeGraph is kept, in the order of the chunks
RECURSIVE GatheredUnits(_)
GatheredUnits(results) ==
    IF results = << >> THEN << >>
    ELSE (IF Head(results).result = "unit"
          THEN <<Head(results).unit[1]>> ELSE << >>)
            \o GatheredUnits(Tail(results))

\* the chunk tasks of pipeline p that have a request at the language model
InFlight(p) == {i \in 1..Len(tasks[p]) : tasks[p][i].pc = "inflight"}

\* a semaphore that hands out a slot whatever its value
SlotFreeUnchecked(p) == TRUE

\* async with self.semaphore: entered without waiting when the value allows
SlotFree(p) == semaphore[p] > 0

ExtractionAtRest ==
    /\ constructed = {}
    /\ semaphore = [p \in Pipelines |-> 0]
    /\ ipc = [p \in Pipelines |-> "idle"]
    /\ tasks = [p \in Pipelines |-> << >>]
    /\ extracted = [p \in Pipelines |-> << >>]
    /\ ingest_result = [p \in Pipelines |-> NoIngestResult]

\* IngestionPipeline.__init__ has run for one pipeline
ExtractionInit ==
    /\ constructed = {1}
    /\ semaphore = [p \in Pipelines |->
                       IF p = 1 THEN MaxConcurrentLlmCalls ELSE 0]
    /\ ipc = [p \in Pipelines |-> "idle"]
    /\ tasks = [p \in Pipelines |-> << >>]
    /\ extracted = [p \in Pipelines |-> << >>]
    /\ ingest_result = [p \in Pipelines |-> NoIngestResult]

\* a step of the extraction leaves the retriever and the writer alone
ExtractionFrame ==
    UNCHANGED <<rvars, wvars, vsvars, mvars, pvars, dvars, cwvars, vwvars>>

\* an ingestion that goes on to the extraction whatever the splitter gave
StartIngestionUnchecked(p, n) ==
    /\ ipc' = [ipc EXCEPT ![p] = "extracting"]
    /\ tasks' = [tasks EXCEPT ![p] = [i \in 1..n |-> NewTask]]
    /\ UNCHANGED <<extracted, ingest_result>>

\* the text is split into n chunks; none is a failure, otherwise one task
\* per chunk is created and gathered
StartIngestion(p, n) ==
    /\ ipc' = [ipc EXCEPT ![p] = IF n = 0 THEN "no_chunks" ELSE "extracting"]
    /\ tasks' = [tasks EXCEPT ![p] = [i \in 1..n |-> NewTask]]
    /\ ingest_result' = [ingest_result EXCEPT
                            ![p] = IF n = 0 THEN NoChunksResult ELSE @]
    /\ UNCHANGED extracted

\* pipeline.ingest_document(text, filename) on a pipeline the caller built
IngestDocument ==
    /\ ExtractionFrame
    /\ \E p \in constructed, n \in 0..MaxChunks :
          /\ ipc[p] = "idle"
          /\ StartIngestion(p, n)
    /\ UNCHANGED <<constructed, semaphore>>

\* ingest_document_async(text, filename): a pipeline of its own, with a
\* semaphore of its own, ingests the document
IngestDocumentAsync ==
    /\ ExtractionFrame
    /\ \E p \in Pipelines \ constructed, n \in 0..MaxConcurrentLlmCalls :
          /\ \A q \in Pipelines \ constructed : p <= q
          /\ constructed' = constructed \cup {p}
          /\ semaphore' = [semaphore EXCEPT ![p] = MaxConcurrentLlmCalls]
          /\ StartIngestion(p, n)

\* a chunk task enters async with self.semaphore and sends its request
AcquireAndCall ==
    /\ ExtractionFrame
    /\ \E p \in constructed :
          \E i \in 1..Len(tasks[p]) :
             /\ tasks[p][i].pc = "acquire"
             /\ SlotFree(p)
             /\ semaphore' = [semaphore EXCEPT ![p] = @ - 1]
             /\ tasks' = [tasks EXCEPT ![p][i].pc = "inflight",
                                       ![p][i].calls = @ + 1]
    /\ UNCHANGED <<constructed, ipc, extracted, ingest_result>>

\* the reply parses and validates: the task returns its KnowledgeGraph
ExtractionReturnsUnit ==
    /\ ExtractionFrame
    /\ \E p \in constructed :
          \E i \in 1..Len(tasks[p]) :
             /\ tasks[p][i].pc = "inflight"
             /\ semaphore' = [semaphore EXCEPT ![p] = @ + 1]
             /\ \E unit \in ExtractedUnits :
                   tasks' = [tasks EXCEPT ![p][i].pc = "done",
                                          ![p][i].result = "unit",
                                          ![p][i].unit = Some(unit),
                                          ![p][i].reply = "unit"]
    /\ UNCHANGED <<constructed, ipc, extracted, ingest_result>>

\* a discard that returns without giving its slot back
ExtractionDiscardsHoldingSlot ==
    /\ ExtractionFrame
    /\ \E p \in constructed :
          \E i \in 1..Len(tasks[p]) :
             /\ tasks[p][i].pc = "inflight"
             /\ tasks' = [tasks EXCEPT ![p][i] = Discard(@)]
    /\ UNCHANGED <<constructed, semaphore, ipc, extracted, ingest_result>>

\* json.loads raises JSONDecodeError: logged, the task returns None
ExtractionDiscards ==
    /\ ExtractionFrame
    /\ \E p \in constructed :
          \E i \in 1..Len(tasks[p]) :
             /\ tasks[p][i].pc = "inflight"
             /\ semaphore' = [semaphore EXCEPT ![p] = @ + 1]
             /\ tasks' = [tasks EXCEPT ![p][i] = Discard(@)]
    /\ UNCHANGED <<constructed, ipc, extracted, ingest_result>>

\* what makes an attempt raise: the language-model call ("error"), or a
\* record of a reply that is valid JSON failing the validation of Entity or
\* Relationship ("invalid")
RaisedBy == {"error", "invalid"}

\* a handler that takes the ValidationError for a reply to discard
RaiseDiscardingInvalid(task, cause) ==
    IF cause = "invalid"
    THEN [task EXCEPT !.pc = "done", !.result = "discarded", !.reply = cause]
    ELSE IF AttemptsLeft(task)
         THEN [task EXCEPT !.pc = "backoff", !.reply = cause]
         ELSE [task EXCEPT !.pc = "done", !.result = "failed",
                           !.reply = cause]

\* except Exception: logged and re-raised; the retry policy waits or, after
\* the last attempt, re-raises
Raise(task, cause) ==
    IF AttemptsLeft(task)
    THEN [task EXCEPT !.pc = "backoff", !.reply = cause]
    ELSE [task EXCEPT !.pc = "done", !.result = "failed", !.reply = cause]

\* an attempt that keeps its slot while it waits for the retry
ExtractionRaisesHoldingSlot ==
    /\ ExtractionFrame
    /\ \E p \in constructed :
          \E i \in 1..Len(tasks[p]) :
             /\ tasks[p][i].pc = "inflight"
             /\ IF AttemptsLeft(tasks[p][i])
                THEN /\ tasks' = [tasks EXCEPT ![p][i].pc = "backoff",
                                               ![p][i].reply = "error"]
                     /\ UNCHANGED semaphore
                ELSE /\ tasks' = [tasks EXCEPT ![p][i].pc = "done",
                                               ![p][i].result = "failed",
                                               ![p][i].reply = "error"]
                     /\ semaphore' = [semaphore EXCEPT ![p] = @ + 1]
    /\ UNCHANGED <<constructed, ipc, extracted, ingest_result>>

\* the language-model call or the validation of a record raises: an
\* exception (the one raised, or the UnboundLocalError of the except clause
\* that names json before the function's own import json has run) leaves
\* the async with block, and the retry policy waits or, after the last
\* attempt, re-raises
ExtractionRaises ==
    /\ ExtractionFrame
    /\ \E p \in constructed :
          \E i \in 1..Len(tasks[p]) :
             /\ tasks[p][i].pc = "inflight"
             /\ semaphore' = [semaphore EXCEPT ![p] = @ + 1]
             /\ \E cause \in RaisedBy :
                   tasks' = [tasks EXCEPT ![p][i] = Raise(@, cause)]
    /\ UNCHANGED <<constructed, ipc, extracted, ingest_result>>

\* the wait is over: _extract_knowledge_from_chunk runs again, the reply
\* and the exception of the attempt before it gone
ExtractionRetry ==
    /\ ExtractionFrame
    /\ \E p \in constructed :
          \E i \in 1..Len(tasks[p]) :
             /\ tasks[p][i].pc = "backoff"
             /\ tasks' = [tasks EXCEPT ![p][i].pc = "acquire",
                                       ![p][i].attempt = @ + 1,
                                       ![p][i].reply = "none"]
    /\ UNCHANGED <<constructed, semaphore, ipc, extracted, ingest_result>>

\* what is left of a chunk task once gather has handed back its result: the
\* coroutine and the retry state of its calls are gone
Finished(task) == [task EXCEPT !.attempt = 0, !.calls = 0]

\* gather returns once every task has ended; the results are filtered
GatherReturns ==
    /\ ExtractionFrame
    /\ \E p \in constructed :
          /\ ipc[p] = "extracting"
          /\ \A i \in 1..Len(tasks[p]) : tasks[p][i].pc = "done"
          /\ ipc' = [ipc EXCEPT ![p] = "extracted"]
          /\ extracted' = [extracted EXCEPT ![p] = GatheredUnits(tasks[p])]
          /\ tasks' = [tasks EXCEPT
                          ![p] = [i \in 1..Len(tasks[p]) |-> Finished(tasks[p][i])]]
    /\ UNCHANGED <<constructed, semaphore, ingest_result>>

ExtractionNext ==
    \/ IngestDocument
    \/ AcquireAndCall
    \/ ExtractionReturnsUnit
    \/ ExtractionDiscards
    \/ ExtractionRaises
    \/ ExtractionRetry
    \/ GatherReturns

ConcurrentIngestNext ==
    \/ IngestDocumentAsync
    \/ AcquireAndCall
    \/ ExtractionReturnsUnit
    \/ ExtractionDiscards
    \/ ExtractionRaises
    \/ ExtractionRetry
    \/ GatherReturns

(***************************************************************************)
(* The vector store and the rest of ingest_document.                       *)
(***************************************************************************)
\* the Documents _write_to_vectorstore builds for the chunks of pipeline p:
\* chunk i of n with chunk_index i - 1 and the call's document_id
Documents(p) ==
    [i \in 1..Len(tasks[p]) |->
        [document_id |-> p, chunk |-> i, chunk_index |-> i - 1,
         total_chunks |-> Len(tasks[p])]]

\* how many entries a failing add_documents can have stored: whole groups
\* of BatchSize, or all of them when the failure follows the last group
StoredPrefixes(n) == {k \in 0..n : k % BatchSize = 0 \/ k = n}

\* the graph store before the ingestion: empty, or holding what an earlier
\* document left
IngestStores ==
    {EmptyStore,
     ApplyOps(EmptyStore,
              PlannedOps(<<KnowledgeGraph(
                  <<Entity("alice", "ORG", Some("lower case")),
                    Entity("Bob", "ORG", None)>>,
                  <<Relationship("alice", "MANAGES", "Bob", Some("runs it"))>>)>>))}

VectorStoreAtRest ==
    /\ vstore = << >>
    /\ vpc = "idle"
    /\ vattempt = 1
    /\ addCalls = 0

\* the pipeline whose ingest_document is between gather and its return; the
\* writes are synchronous calls, so no other coroutine runs meanwhile
Writing(p) == ipc[p] \in {"graph_write", "vector_write"}

\* sum(len(kg.entities) for kg in knowledge_graphs)
RECURSIVE TotalEntities(_)
TotalEntities(kgs) ==
    IF kgs = << >> THEN 0
    ELSE Len(Head(kgs).entities) + TotalEntities(Tail(kgs))

\* sum(len(kg.relationships) for kg in knowledge_graphs)
RECURSIVE TotalRelationships(_)
TotalRelationships(kgs) ==
    IF kgs = << >> THEN 0
    ELSE Len(Head(kgs).relationships) + TotalRelationships(Tail(kgs))

\* a step of ingest_document after gather leaves the retriever alone
IngestFrame == UNCHANGED <<rvars, mvars, pvars, dvars, cwvars, vwvars>>

\* the await of _extract_knowledge_parallel has returned
ExtractionOver(p) == ipc[p] = "extracted"

\* a pipeline that goes on to the vector write whatever the graph write did
GraphWriteOverUnchecked == wpc \in {"done", "failed"}

\* _write_to_neo4j has returned
GraphWriteOver == wpc = "done"

\* ingest_document passes the gathered units to _write_to_neo4j, which
\* flattens them and opens the session; with nothing to write it returns
IngestWriteToNeo4j ==
    /\ IngestFrame
    /\ \E p \in constructed :
          /\ ExtractionOver(p)
          /\ \A q \in constructed : ~Writing(q)
          /\ LET kgs == extracted[p]
             IN /\ knowledge_graphs' = kgs
                /\ pendingOps' = PlannedOps(kgs)
                /\ wpc' = IF PlannedOps(kgs) = << >> THEN "done" ELSE "running"
          /\ ipc' = [ipc EXCEPT ![p] = "graph_write"]
    /\ writeCalls' = writeCalls + 1
    /\ wattempt' = 1
    /\ runCalls' = 0
    /\ UNCHANGED <<gnodes, gedges, written, constructed, semaphore, tasks, extracted,
                   ingest_result, vsvars>>

\* _write_to_neo4j re-raised after its last attempt: the except branch of
\* ingest_document returns the failure, the vector write is not reached
IngestGraphWriteFailed ==
    /\ IngestFrame
    /\ \E p \in constructed :
          /\ ipc[p] = "graph_write"
          /\ wpc = "failed"
          /\ ipc' = [ipc EXCEPT ![p] = "returned"]
          /\ ingest_result' = [ingest_result EXCEPT
                                  ![p] = FailureResult("graph write")]
    /\ UNCHANGED <<wvars, constructed, semaphore, tasks, extracted, vsvars>>

\* _write_to_neo4j returned: _write_to_vectorstore builds its Documents and
\* calls add_documents
IngestWriteToVectorstore ==
    /\ IngestFrame
    /\ \E p \in constructed :
          /\ ipc[p] = "graph_write"
          /\ GraphWriteOver
          /\ ipc' = [ipc EXCEPT ![p] = "vector_write"]
    /\ vpc' = "running"
    /\ vattempt' = 1
    /\ UNCHANGED <<wvars, constructed, semaphore, tasks, extracted,
                   ingest_result, vstore, addCalls>>

\* add_documents stores every Document and returns; ingest_document returns
\* its statistics
AddDocumentsReturns ==
    /\ IngestFrame
    /\ vpc = "running"
    /\ \E p \in constructed :
          /\ ipc[p] = "vector_write"
          /\ vstore' = vstore \o Documents(p)
          /\ ipc' = [ipc EXCEPT ![p] = "returned"]
          /\ ingest_result' =
                [ingest_result EXCEPT
                    ![p] = SuccessResult(Len(tasks[p]),
                                         TotalEntities(knowledge_graphs),
                                         TotalRelationships(knowledge_graphs))]
    /\ vpc' = "done"
    /\ addCalls' = addCalls + 1
    /\ UNCHANGED <<wvars, constructed, semaphore, tasks, extracted, vattempt>>

\* add_documents raises, some groups stored: the retry policy waits or,
\* after the last attempt, re-raises into the except branch of
\* ingest_document, which returns the failure
AddDocumentsRaises ==
    /\ IngestFrame
    /\ vpc = "running"
    /\ \E p \in constructed :
          /\ ipc[p] = "vector_write"
          /\ \E k \in StoredPrefixes(Len(tasks[p])) :
                vstore' = vstore \o SubSeq(Documents(p), 1, k)
          /\ IF vattempt < MaxAttempts
             THEN /\ vpc' = "backoff"
                  /\ UNCHANGED <<ipc, ingest_result>>
             ELSE /\ vpc' = "failed"
                  /\ ipc' = [ipc EXCEPT ![p] = "returned"]
                  /\ ingest_result' = [ingest_result EXCEPT
                                          ![p] = FailureResult("vector write")]
    /\ addCalls' = addCalls + 1
    /\ UNCHANGED <<wvars, constructed, semaphore, tasks, extracted, vattempt>>

\* the wait is over: _write_to_vectorstore runs again from its first line
VectorWriteRetry ==
    /\ IngestFrame
    /\ vpc = "backoff"
    /\ vattempt' = vattempt + 1
    /\ vpc' = "running"
    /\ UNCHANGED <<wvars, xvars, vstore, addCalls>>

\* one call of ingest_document, from the split to the returned dict
IngestNext ==
    \/ IngestDocument
    \/ AcquireAndCall
    \/ ExtractionReturnsUnit
    \/ ExtractionDiscards
    \/ ExtractionRaises
    \/ ExtractionRetry
    \/ GatherReturns
    \/ IngestWriteToNeo4j
    \/ SessionRunReturns
    \/ SessionRunRaises
    \/ WriteRetry
    \/ IngestGraphWriteFailed
    \/ IngestWriteToVectorstore
    \/ AddDocumentsReturns
    \/ AddDocumentsRaises
    \/ VectorWriteRetry

(***************************************************************************)
(* The graph connections: Neo4jConnectionManager, the handles the          *)
(* retrieval engine and the ingestion pipeline hold, and the statements    *)
(* the retrieval engine issues through its handles.                        *)
(***************************************************************************)
NEO4J_RW_USER == "neo4j_rw_user"
NEO4J_RO_USER == "neo4j_ro_user"

Components == {"retriever", "pipeline"}

\* one credential for both drivers
SharedCredential(mode) == NEO4J_RW_USER

\* the auth argument of GraphDatabase.driver in get_write_driver ("WRITE")
\* and in get_read_driver ("READ")
Credential(mode) == IF mode = "WRITE" THEN NEO4J_RW_USER ELSE NEO4J_RO_USER

\* GraphDatabase.driver(...): a new driver object
Driver(mode, id) == [auth |-> Credential(mode), id |-> id]

\* a getter that creates a driver at every call
AlwaysNew(cache, mode, id) == Driver(mode, id)

\* if cls._driver is None: cls._driver = GraphDatabase.driver(...); the
\* driver the getter goes on with
CachedOrNew(cache, mode, id) ==
    IF cache = None THEN Driver(mode, id) ELSE cache[1]

\* the drivers in the two class attributes
CachedDrivers ==
    {c[1] : c \in {write_driver, read_driver} \ {None}}

\* a connection a component holds in one of its fields
Handle(field, auth) == [via |-> field, auth |-> auth]

\* a credential a component asked for, and through which function
Request(component, fn, auth) == [by |-> component, fn |-> fn, auth |-> auth]

\* a statement that a method of the retrieval engine runs against the graph
\* store
Statement(method, field, auth, intent) ==
    [by |-> method, via |-> field, auth |-> auth, intent |-> intent]

DatabaseAtRest ==
    /\ next_id = 0
    /\ closed = {}
    /\ returned = None
    /\ test_nodes = 0
    /\ probe = [kind |-> "none"]
    /\ schema = {}
    /\ schema_call = [kind |-> "none"]
    /\ schema_calls = 0

PrivilegeAtRest ==
    /\ write_driver = None
    /\ read_driver = None
    /\ handles = [c \in Components |-> {}]
    /\ requested = {}
    /\ statements = {}

PrivilegeFrame ==
    UNCHANGED <<rvars, wvars, xvars, vsvars, mvars, cwvars, vwvars>>

\* HybridRetriever(): get_read_graph() returns the cached read driver or
\* creates one with the read-only credential, caches it and verifies its
\* connectivity; when the verification raises, the constructor raises and
\* no retriever exists, the driver staying cached
ConstructRetriever ==
    /\ PrivilegeFrame
    /\ read_driver = None => next_id < MaxDrivers
    /\ \E connected \in BOOLEAN :
          LET driver == CachedOrNew(read_driver, "READ", next_id + 1)
          IN /\ read_driver' = Some(driver)
             /\ next_id' = IF read_driver = None THEN next_id + 1 ELSE next_id
             /\ returned' = IF read_driver = None /\ ~connected
                            THEN None ELSE Some(driver)
             /\ requested' = requested
                   \cup {Request("retriever", "get_read_graph", driver.auth)}
             /\ handles' =
                   IF read_driver = None /\ ~connected
                   THEN handles
                   ELSE [handles EXCEPT !["retriever"] =
                            {Handle("read_driver", driver.auth)}]
    /\ UNCHANGED <<write_driver, statements, closed, test_nodes, probe, schema,
                   schema_call, schema_calls>>

\* the graph branch of retrieve: _get_neo4j_graph returns the cached wrapper
\* or builds one with the read-only user and password; the chain translates
\* the question and runs the statement the language model wrote, whatever
\* its intent, through the wrapper. The store refuses a write on the
\* read-only credential. Every failure on the way is caught.
GraphSearch ==
    /\ PrivilegeFrame
    /\ handles["retriever"] # {}
    /\ LET wrapper == Handle("neo4j_graph", NEO4J_RO_USER)
           cached == \E h \in handles["retriever"] : h.via = "neo4j_graph"
       IN \/ /\ ~cached
             /\ requested' = requested
                   \cup {Request("retriever", "Neo4jGraph", NEO4J_RO_USER)}
             /\ UNCHANGED <<handles, statements>>
          \/ /\ requested' =
                   IF cached THEN requested
                   ELSE requested
                        \cup {Request("retriever", "Neo4jGraph", NEO4J_RO_USER)}
             /\ handles' = [handles EXCEPT !["retriever"] = @ \cup {wrapper}]
             /\ \/ UNCHANGED statements
                \/ \E intent \in {"read", "write"} :
                      statements' = statements
                         \cup {Statement("_graph_search_sync", wrapper.via,
                                         wrapper.auth, intent)}
    /\ UNCHANGED <<write_driver, read_driver, dvars>>

\* a method opens a session of self.read_driver for its MATCH statements
ReadSession(method) ==
    /\ PrivilegeFrame
    /\ \E h \in handles["retriever"] :
          /\ h.via = "read_driver"
          /\ statements' = statements
                \cup {Statement(method, h.via, h.auth, "read")}
    /\ UNCHANGED <<write_driver, read_driver, handles, requested, dvars>>

GetGraphStatistics == ReadSession("get_graph_statistics")

SearchEntities == ReadSession("search_entities")

\* IngestionPipeline(): get_write_graph() returns the cached write driver or
\* creates one with the read-write credential, as get_read_graph does
ConstructPipeline ==
    /\ PrivilegeFrame
    /\ write_driver = None => next_id < MaxDrivers
    /\ \E connected \in BOOLEAN :
          LET driver == CachedOrNew(write_driver, "WRITE", next_id + 1)
          IN /\ write_driver' = Some(driver)
             /\ next_id' = IF write_driver = None THEN next_id + 1 ELSE next_id
             /\ returned' = IF write_driver = None /\ ~connected
                            THEN None ELSE Some(driver)
             /\ requested' = requested
                   \cup {Request("pipeline", "get_write_graph", driver.auth)}
             /\ handles' =
                   IF write_driver = None /\ ~connected
                   THEN handles
                   ELSE [handles EXCEPT !["pipeline"] =
                            {Handle("graph_driver", driver.auth)}]
    /\ UNCHANGED <<read_driver, statements, closed, test_nodes, probe, schema,
                   schema_call, schema_calls>>

\* a step of _write_to_neo4j, whose session is self.graph_driver.session()
PipelineWrite ==
    /\ handles["pipeline"] # {}
    /\ WriterNext

\* close_all_connections: both drivers are closed and forgotten; the
\* objects that hold one keep their reference
CloseAll ==
    /\ PrivilegeFrame
    /\ write_driver # None \/ read_driver # None
    /\ write_driver' = None
    /\ read_driver' = None
    /\ closed' = closed \cup {d.id : d \in CachedDrivers}
    /\ returned' = None
    /\ UNCHANGED <<handles, requested, statements, next_id, test_nodes, probe,
                   schema, schema_call, schema_calls>>

PrivilegeNext ==
    \/ ConstructRetriever
    \/ GraphSearch
    \/ GetGraphStatistics
    \/ SearchEntities
    \/ ConstructPipeline
    \/ PipelineWrite
    \/ CloseAll

(***************************************************************************)
(* database.py: the permission check and the schema bootstrap.             *)
(***************************************************************************)
DatabaseFrame ==
    UNCHANGED <<rvars, wvars, xvars, vsvars, mvars, pvars, cwvars, vwvars>>

NoCall == [kind |-> "none"]

\* what verify_read_only_permissions returns: False after both statements
\* ran, True from the except clause
ProbeResult(create, delete) == ~(create = "ok" /\ delete = "ok")

\* verify_read_only_permissions(driver): in one try block the CREATE of the
\* test node and the MATCH ... DELETE of the test nodes are run; the DELETE
\* is not reached when the CREATE raises
VerifyReadOnlyPermissions ==
    /\ DatabaseFrame
    /\ \E d \in CachedDrivers, create \in {"ok", "raises"}, delete \in {"ok", "raises"} :
          /\ create = "ok" => test_nodes < MaxTestNodes
          /\ test_nodes' = IF create = "raises" THEN test_nodes
                           ELSE IF delete = "ok" THEN 0
                           ELSE test_nodes + 1
          /\ probe' = [kind |-> "call", auth |-> d.auth,
                       before |-> test_nodes,
                       created |-> create = "ok",
                       deleted |-> create = "ok" /\ delete = "ok",
                       result |-> ProbeResult(create, delete)]
    /\ UNCHANGED <<next_id, closed, returned, schema, schema_call, schema_calls>>

INDEX == "INDEX entity_name"
CONSTRAINT == "CONSTRAINT entity_name_unique"

\* a bootstrap that gives up at the first statement that fails
SchemaAfterAborting(before, failed) ==
    IF INDEX \in failed THEN before
    ELSE before \cup ({INDEX, CONSTRAINT} \ failed)

\* CREATE ... IF NOT EXISTS, each statement in a try block of its own: what
\* exists stays, what a statement that did not fail names exists afterwards
SchemaAfter(before, failed) == before \cup ({INDEX, CONSTRAINT} \ failed)

\* IngestionPipeline.initialize_schema -> initialize_neo4j_schema(driver):
\* the session is opened and the two statements are run, a failure of
\* either being logged; only a session that cannot be opened raises
InitializeNeo4jSchema ==
    /\ DatabaseFrame
    /\ handles["pipeline"] # {}
    /\ schema_calls < MaxSchemaCalls
    /\ schema_calls' = schema_calls + 1
    /\ \/ /\ schema_call' = [kind |-> "call", before |-> schema,
                             issued |-> << >>, failed |-> {}, raised |-> TRUE]
          /\ UNCHANGED schema
       \/ \E failed \in SUBSET {INDEX, CONSTRAINT} :
             /\ schema' = SchemaAfter(schema, failed)
             /\ schema_call' = [kind |-> "call", before |-> schema,
                                issued |-> <<INDEX, CONSTRAINT>>,
                                failed |-> failed, raised |-> FALSE]
    /\ UNCHANGED <<next_id, closed, returned, test_nodes, probe>>

DatabaseNext ==
    \/ ConstructRetriever
    \/ ConstructPipeline
    \/ CloseAll
    \/ VerifyReadOnlyPermissions
    \/ InitializeNeo4jSchema

(***************************************************************************)
(* Two pipelines writing into one graph store.                             *)
(***************************************************************************)
ConcurrentWriteAtRest ==
    /\ cw_batches = << >>
    /\ cw_pending = << >>

ConcurrentWriteFrame ==
    UNCHANGED <<rvars, xvars, vsvars, mvars, pvars, dvars, vwvars>>

\* a pipeline's _write_to_neo4j is called with its batch: the lists are
\* flattened and the session is opened
ConcurrentWriteCall ==
    /\ ConcurrentWriteFrame
    /\ Len(cw_batches) < MaxPipelines
    /\ \E u \in UnitPool :
          /\ cw_batches' = Append(cw_batches, <<u>>)
          /\ cw_pending' = Append(cw_pending, PlannedOps(<<u>>))
    /\ UNCHANGED wvars

\* the next session.run of one of the pipelines reaches the store
ConcurrentSessionRun ==
    /\ ConcurrentWriteFrame
    /\ \E p \in 1..Len(cw_pending) :
          /\ cw_pending[p] # << >>
          /\ LET store == ApplyOp([nodes |-> gnodes, edges |-> gedges],
                                  Head(cw_pending[p]))
             IN /\ gnodes' = store.nodes
                /\ gedges' = store.edges
          /\ cw_pending' = [cw_pending EXCEPT ![p] = Tail(@)]
    /\ UNCHANGED <<cw_batches, wpc, knowledge_graphs, pendingOps, wattempt,
                   runCalls, writeCalls, written>>

ConcurrentWriteNext ==
    \/ ConcurrentWriteCall
    \/ ConcurrentSessionRun

(***************************************************************************)
(* _write_to_vectorstore called on its own.                                *)
(***************************************************************************)
VectorCallAtRest ==
    /\ vcall = NoCall
    /\ vsubmitted = << >>
    /\ vdone = 0
    /\ verrors = 0

VectorCallFrame ==
    UNCHANGED <<rvars, wvars, xvars, mvars, pvars, dvars, cwvars>>

\* what split_text makes of the document that is ingested again and again
ChunkLists == {[i \in 1..n |-> i] : n \in 1..MaxChunks}

\* an entry an earlier ingestion of another document left in the collection
OldEntry ==
    [page_content |-> 1, document_id |-> 0, filename |-> "old.txt",
     chunk_index |-> 0, total_chunks |-> 1]

\* a loop that numbers the chunks from one
BuildDocumentsFromOne(chunks, document_id, filename) ==
    [i \in 1..Len(chunks) |->
        [page_content |-> chunks[i], document_id |-> document_id,
         filename |-> filename, chunk_index |-> i,
         total_chunks |-> Len(chunks)]]

\* for i, chunk in enumerate(chunks): one Document per chunk with its
\* metadata; the timestamp, which nothing reads, is left out
BuildDocuments(chunks, document_id, filename) ==
    [i \in 1..Len(chunks) |->
        [page_content |-> chunks[i], document_id |-> document_id,
         filename |-> filename, chunk_index |-> i - 1,
         total_chunks |-> Len(chunks)]]

\* ingest_document draws a new document_id and calls
\* _write_to_vectorstore(chunks, document_id, filename)
WriteToVectorstoreCall ==
    /\ VectorCallFrame
    /\ vpc \in {"idle", "done", "failed"}
    /\ \/ /\ vcall = NoCall
          /\ \E chunks \in ChunkLists :
                vcall' = [kind |-> "call", chunks |-> chunks,
                          document_id |-> 1, filename |-> "a.txt"]
       \/ /\ vcall # NoCall
          /\ vcall.document_id < MaxVectorCalls
          /\ vcall' = [vcall EXCEPT !.document_id = @ + 1]
    /\ vpc' = "running"
    /\ vattempt' = 1
    /\ vsubmitted' = << >>
    /\ UNCHANGED <<vstore, addCalls, vdone, verrors>>

\* the Documents are built and add_documents stores them all
VectorAddReturns ==
    /\ VectorCallFrame
    /\ vpc = "running"
    /\ vsubmitted' = BuildDocuments(vcall.chunks, vcall.document_id,
                                    vcall.filename)
    /\ vstore' = vstore \o vsubmitted'
    /\ addCalls' = addCalls + 1
    /\ vdone' = vdone + 1
    /\ vpc' = "done"
    /\ UNCHANGED <<vcall, vattempt, verrors>>

\* the Documents are built and add_documents raises, some groups stored:
\* the retry policy waits or, after the last attempt, re-raises
VectorAddRaises ==
    /\ VectorCallFrame
    /\ vpc = "running"
    /\ vsubmitted' = BuildDocuments(vcall.chunks, vcall.document_id,
                                    vcall.filename)
    /\ \E k \in StoredPrefixes(Len(vcall.chunks)) :
          vstore' = vstore \o SubSeq(vsubmitted', 1, k)
    /\ addCalls' = addCalls + 1
    /\ verrors' = verrors + 1
    /\ vpc' = IF vattempt < MaxAttempts THEN "backoff" ELSE "failed"
    /\ UNCHANGED <<vcall, vattempt, vdone>>

\* the wait is over: _write_to_vectorstore runs again from its first line
VectorCallRetry ==
    /\ VectorCallFrame
    /\ vpc = "backoff"
    /\ vattempt' = vattempt + 1
    /\ vpc' = "running"
    /\ UNCHANGED <<vstore, addCalls, vwvars>>

VectorWriteNext ==
    \/ WriteToVectorstoreCall
    \/ VectorAddReturns
    \/ VectorAddRaises
    \/ VectorCallRetry

(***************************************************************************)
(* Specifications.                                                         *)
(***************************************************************************)
\* one retriever answering queries
InitRetrieve ==
    RetrieverInit /\ WriterAtRest /\ ExtractionAtRest /\ VectorStoreAtRest
    /\ ModelsAtRest /\ PrivilegeAtRest
    /\ DatabaseAtRest /\ ConcurrentWriteAtRest /\ VectorCallAtRest

SpecRetrieve == InitRetrieve /\ [][RetrieverNext]_vars

\* one pipeline writing a batch into a store that earlier ingestions filled
InitWrite ==
    RetrieverInit /\ WriterInit /\ ExtractionAtRest /\ VectorStoreAtRest
    /\ ModelsAtRest /\ PrivilegeAtRest
    /\ DatabaseAtRest /\ ConcurrentWriteAtRest /\ VectorCallAtRest

SpecWrite == InitWrite /\ [][WriterNext]_vars

\* the relation types a record of a language-model reply can carry
ReplyRelationTypes == {None} \cup {Some(r) : r \in RawRelations}

\* the Relationship constructor call _extract_knowledge_from_chunk makes for
\* a record of the reply whose relation type is relation_type
RecordCall(relation_type) ==
    [fn |-> "Relationship", source |-> Some(<<"a">>), target |-> Some(<<"B">>),
     relation_type |-> relation_type, description |-> None]

\* what gather hands to _write_to_neo4j for a one-chunk document whose reply
\* holds two entities, the record and a second relationship: the unit, or
\* nothing when the record fails validation in every attempt
ExtractedBatch(relation_type) ==
    LET rel == ValidatedRelationship(Some(<<"a">>), Some(<<"B">>),
                                     relation_type, None)
        other == ValidatedRelationship(Some(<<"B">>), Some(<<"a">>),
                                       Some(<<"works", " ", "at">>), None)
        es == <<ValidatedEntity(Some(<<"a">>), Some(<<"B">>), None),
                ValidatedEntity(Some(<<"B">>), Some(<<"a">>), None)>>
    IN IF rel = ValidationError THEN << >>
       ELSE <<KnowledgeGraph(es, <<rel, other>>)>>

\* the graph write of a batch that the extraction made of a reply
InitExtractedWrite ==
    /\ RetrieverInit
    /\ \E relation_type \in ReplyRelationTypes :
          /\ model_call = RecordCall(relation_type)
          /\ model_result = ValidatedRelationship(Some(<<"a">>), Some(<<"B">>),
                                                  relation_type, None)
          /\ knowledge_graphs = ExtractedBatch(relation_type)
    /\ gnodes = << >>
    /\ gedges = << >>
    /\ wpc = "idle"
    /\ pendingOps = << >>
    /\ wattempt = 1
    /\ runCalls = 0
    /\ writeCalls = 0
    /\ written = NotWritten
    /\ ExtractionAtRest /\ VectorStoreAtRest
    /\ PrivilegeAtRest
    /\ DatabaseAtRest /\ ConcurrentWriteAtRest /\ VectorCallAtRest

SpecExtractedWrite == InitExtractedWrite /\ [][WriterNext]_vars

\* one pipeline extracting the chunks of one document
InitExtract ==
    RetrieverInit /\ WriterAtRest /\ ExtractionInit /\ VectorStoreAtRest
    /\ ModelsAtRest /\ PrivilegeAtRest
    /\ DatabaseAtRest /\ ConcurrentWriteAtRest /\ VectorCallAtRest

SpecExtract == InitExtract /\ [][ExtractionNext]_vars

\* the event loop runs every task that can run, every wait of the retry
\* policy ends, and every language-model call returns or fails
ExtractionFairness ==
    /\ WF_vars(AcquireAndCall)
    /\ WF_vars(ExtractionReturnsUnit \/ ExtractionDiscards \/ ExtractionRaises)
    /\ WF_vars(ExtractionRetry)
    /\ WF_vars(GatherReturns)

SpecExtractFair == SpecExtract /\ ExtractionFairness

\* documents ingested concurrently through ingest_document_async
InitConcurrentIngest ==
    RetrieverInit /\ WriterAtRest /\ ExtractionAtRest /\ VectorStoreAtRest
    /\ ModelsAtRest /\ PrivilegeAtRest
    /\ DatabaseAtRest /\ ConcurrentWriteAtRest /\ VectorCallAtRest

SpecConcurrentIngest == InitConcurrentIngest /\ [][ConcurrentIngestNext]_vars

\* one pipeline ingesting one document into a graph store that an earlier
\* ingestion may have filled
InitIngest ==
    /\ RetrieverInit
    /\ \E store \in IngestStores :
          /\ gnodes = store.nodes
          /\ gedges = store.edges
    /\ wpc = "idle"
    /\ knowledge_graphs = << >>
    /\ pendingOps = << >>
    /\ wattempt = 1
    /\ runCalls = 0
    /\ writeCalls = 0
    /\ written = NotWritten
    /\ ExtractionInit
    /\ VectorStoreAtRest
    /\ ModelsAtRest /\ PrivilegeAtRest
    /\ DatabaseAtRest /\ ConcurrentWriteAtRest /\ VectorCallAtRest

\* calls into the validation layer
InitModels ==
    /\ RetrieverInit /\ WriterAtRest /\ ExtractionAtRest /\ VectorStoreAtRest
    /\ ModelsAtRest /\ PrivilegeAtRest
    /\ DatabaseAtRest /\ ConcurrentWriteAtRest /\ VectorCallAtRest

SpecModels == InitModels /\ [][ModelsNext]_vars

SpecIngest == InitIngest /\ [][IngestNext]_vars

\* a retriever and a pipeline over one connection manager, the pipeline
\* writing one batch into an empty graph
InitPrivilege ==
    /\ RetrieverInit
    /\ gnodes = << >>
    /\ gedges = << >>
    /\ wpc = "idle"
    /\ knowledge_graphs \in {<<u>> : u \in UnitPool}
    /\ pendingOps = << >>
    /\ wattempt = 1
    /\ runCalls = 0
    /\ writeCalls = 0
    /\ written = NotWritten
    /\ ExtractionAtRest
    /\ VectorStoreAtRest
    /\ ModelsAtRest
    /\ PrivilegeAtRest
    /\ DatabaseAtRest /\ ConcurrentWriteAtRest /\ VectorCallAtRest

SpecPrivilege == InitPrivilege /\ [][PrivilegeNext]_vars

\* the connection manager, the permission check and the schema bootstrap
InitDatabase ==
    /\ RetrieverInit /\ WriterAtRest /\ ExtractionAtRest /\ VectorStoreAtRest
    /\ ModelsAtRest
    /\ PrivilegeAtRest
    /\ DatabaseAtRest /\ ConcurrentWriteAtRest /\ VectorCallAtRest

SpecDatabase == InitDatabase /\ [][DatabaseNext]_vars

\* pipelines whose graph writes reach one empty store in any order
InitConcurrentWrite ==
    /\ RetrieverInit /\ WriterAtRest /\ ExtractionAtRest /\ VectorStoreAtRest
    /\ ModelsAtRest
    /\ PrivilegeAtRest
    /\ DatabaseAtRest /\ ConcurrentWriteAtRest /\ VectorCallAtRest

SpecConcurrentWrite == InitConcurrentWrite /\ [][ConcurrentWriteNext]_vars

\* one document written to the vector store again and again, the collection
\* empty or holding an older entry
InitVectorWrite ==
    /\ RetrieverInit /\ WriterAtRest /\ ExtractionAtRest
    /\ vstore \in {<< >>, <<OldEntry>>}
    /\ vpc = "idle"
    /\ vattempt = 1
    /\ addCalls = 0
    /\ ModelsAtRest
    /\ PrivilegeAtRest
    /\ DatabaseAtRest /\ ConcurrentWriteAtRest /\ VectorCallAtRest

SpecVectorWrite == InitVectorWrite /\ [][VectorWriteNext]_vars

(***************************************************************************)
(* Claims about retrieve.                                                  *)
(***************************************************************************)
RetrieveFinished == rpc \in {"returned", "raised"}

BothModesEnabled == request.use_vector_search /\ request.use_graph_search

NoInfoResponse == QueryResponse(NO_INFO, << >>, << >>, << >>)

\* C1: with both modes enabled, when the vector search failed on every
\* attempt and the graph store or the translation chain raised inside
\* _graph_search_sync, retrieve returns the fixed no-information answer with
\* empty vector_context, graph_context and sources.
C1_BothBranchesFailGiveNoInfo ==
    (RetrieveFinished /\ BothModesEnabled
        /\ vectorOutcome = "failed" /\ graphOutcome = "caught")
    => (rpc = "returned" /\ response = NoInfoResponse)

\* C2: retrieve never raises to its caller, whatever fails, the synthesis
\* call failing on all of its attempts included.
C2_RetrieveNeverRaises == rpc # "raised"

\* C3: a returned response lists "Vector Search" exactly when the vector
\* branch returned at least one snippet, and "Knowledge Graph" exactly when
\* the graph branch succeeded in producing graph context.
C3_SourcesAreTheContributors ==
    rpc = "returned" =>
        /\ ("Vector Search" \in Range(response.sources))
              <=> (vectorOutcome = "returned" /\ vector_context # << >>)
        /\ ("Knowledge Graph" \in Range(response.sources))
              <=> (graphOutcome = "returned" /\ graphResult # << >>)

\* C4: with both modes enabled, when the vector search failed on every
\* attempt and the graph branch returned a non-empty G, retrieve returns a
\* synthesized non-empty answer with empty vector_context and graph_context
\* equal to G.
C4_VectorFailureKeepsGraphAnswer ==
    (RetrieveFinished /\ BothModesEnabled /\ vectorOutcome = "failed"
        /\ graphOutcome = "returned" /\ graphResult # << >>)
    => /\ rpc = "returned"
       /\ synthCalls >= 1
       /\ response.answer # << >>
       /\ response.vector_context = << >>
       /\ response.graph_context = graphResult

\* C5: when both contexts are empty retrieve returns the fixed
\* no-information answer and the language model is never called for
\* synthesis; a synthesis call is made only if some context is non-empty.
C5_NoSynthesisOnEmptyContext ==
    /\ (rpc = "returned" /\ vector_context = << >> /\ graph_context = << >>)
          => (response = NoInfoResponse /\ synthCalls = 0)
    /\ synthCalls > 0 => (vector_context # << >> \/ graph_context # << >>)

\* both branches ran and yielded nothing, and retrieve has returned
C5_Witness ==
    /\ rpc = "returned"
    /\ vectorOutcome = "returned" /\ vector_context = << >>
    /\ graphOutcome = "returned" /\ graph_context = << >>
    /\ response = NoInfoResponse
    /\ synthCalls = 0


(***************************************************************************)
(* Claims about the graph write.                                           *)
(***************************************************************************)
\* N: the entities of a batch
RECURSIVE BatchEntityCount(_)
BatchEntityCount(kgs) ==
    IF kgs = << >> THEN 0
    ELSE Len(Head(kgs).entities) + BatchEntityCount(Tail(kgs))

RECURSIVE BatchRelationshipCount(_)
BatchRelationshipCount(kgs) ==
    IF kgs = << >> THEN 0
    ELSE Len(Head(kgs).relationships) + BatchRelationshipCount(Tail(kgs))

\* T: the distinct relation types of a batch
BatchRelationTypes(kgs) ==
    UNION {{r.relation_type : r \in Range(kgs[i].relationships)} :
              i \in 1..Len(kgs)}

NodeNames(nodes) == [i \in 1..Len(nodes) |-> nodes[i].name]

EdgeKeys(edges) ==
    [j \in 1..Len(edges) |->
        <<edges[j].source, edges[j].rel_type, edges[j].target>>]

\* C6: writing a batch again leaves the same entity nodes and the same
\* edges as writing it once: when a call of _write_to_neo4j returns, the
\* store holds the nodes and edges the previous successful call of the same
\* batch left, none added.
C6_GraphWriteIdempotent ==
    (wpc = "done" /\ written.valid)
    => /\ NodeNames(gnodes) = NodeNames(written.nodes)
       /\ EdgeKeys(gedges) = EdgeKeys(written.edges)

\* a batch of two units with entities and relationships has been written a
\* second time into a store that holds several edges
C6_Witness ==
    /\ wpc = "done"
    /\ written.valid
    /\ writeCalls = 2
    /\ Len(knowledge_graphs) = 2
    /\ BatchEntityCount(knowledge_graphs) >= 2
    /\ BatchRelationshipCount(knowledge_graphs) >= 2
    /\ Len(gedges) >= 2

\* C7, read literally: an execution of the graph write step issues exactly 1 + T
\* session.run calls, T the number of distinct relation types of the batch,
\* whatever the number of entities and relationships.
C7_ExactlyOnePlusT ==
    (wpc = "done" /\ writeCalls >= 1)
    => runCalls = 1 + Cardinality(BatchRelationTypes(knowledge_graphs))

\* the entity query is issued only for a non-empty entity list
EntityQueries(kgs) == IF BatchEntityCount(kgs) >= 1 THEN 1 ELSE 0

\* C7, with the empty entity list and the failing execution told apart: an
\* execution that meets no store error issues exactly
\* E + T session.run calls, E being 1 when the batch holds an entity and 0
\* when it holds none; an execution ended by a store error issues at most
\* E + T.
C7_RoundTrips ==
    LET bound == EntityQueries(knowledge_graphs)
                    + Cardinality(BatchRelationTypes(knowledge_graphs))
    IN /\ (wpc = "done" /\ writeCalls >= 1) => runCalls = bound
       /\ wpc \in {"backoff", "failed"} => (runCalls >= 1 /\ runCalls <= bound)

\* three entities and four relationships of two types took three queries
C7_Witness ==
    /\ wpc = "done"
    /\ BatchEntityCount(knowledge_graphs) >= 3
    /\ BatchRelationshipCount(knowledge_graphs) >= 4
    /\ Cardinality(BatchRelationTypes(knowledge_graphs)) = 2
    /\ runCalls = 3

\* a step in which a relationship query reaches the store
RelationshipQueryStep ==
    /\ wpc = "running"
    /\ Head(pendingOps).kind = "relationships"
    /\ runCalls' = runCalls + 1

\* C8: both endpoints of every edge are existing entity nodes, and a
\* relationship query adds no node: every edge it adds joins two nodes that
\* existed before it and bear the source and target names of one of its
\* relationships, so a relationship naming a missing node yields no edge.
C8_EdgesJoinExistingNodes ==
    /\ [](\A j \in 1..Len(gedges) :
             /\ gedges[j].source \in 1..Len(gnodes)
             /\ gedges[j].target \in 1..Len(gnodes))
    /\ [][RelationshipQueryStep =>
             /\ gnodes' = gnodes
             /\ \A j \in (Len(gedges) + 1)..Len(gedges') :
                   /\ gedges'[j].source \in 1..Len(gnodes)
                   /\ gedges'[j].target \in 1..Len(gnodes)
                   /\ gedges'[j].rel_type = Head(pendingOps).rel_type
                   /\ \E k \in 1..Len(Head(pendingOps).rels) :
                         /\ Head(pendingOps).rels[k].source
                               = gnodes[gedges'[j].source].name
                         /\ Head(pendingOps).rels[k].target
                               = gnodes[gedges'[j].target].name]_vars

\* a write whose batch names a node the store does not hold has returned
\* at its first attempt, with an edge for another relationship only
C8_Witness ==
    /\ wpc = "done"
    /\ wattempt = 1
    /\ writeCalls = 1
    /\ Len(gedges) >= 1
    /\ \E i \in 1..Len(knowledge_graphs) :
          \E rel \in Range(knowledge_graphs[i].relationships) :
             /\ MatchNodes(gnodes, rel.target) = {}
             /\ MatchNodes(gnodes, rel.source) # {}

(***************************************************************************)
(* Claims about the extraction fan-out.                                    *)
(***************************************************************************)
\* C9: while one pipeline extracts the chunks of a document, the extraction
\* requests in flight never exceed max_concurrent_llm_calls (so a task that
\* finds every slot taken sends nothing until a slot is released).
C9_InFlightBounded ==
    \A p \in constructed : Cardinality(InFlight(p)) <= MaxConcurrentLlmCalls

\* every slot is taken, one of them by a task at a later attempt, and a
\* further chunk task is suspended at the semaphore
C9_Witness ==
    /\ Cardinality(InFlight(1)) = MaxConcurrentLlmCalls
    /\ \E i \in 1..Len(tasks[1]) :
          tasks[1][i].pc = "acquire" /\ tasks[1][i].calls = 0
    /\ \E i \in InFlight(1) : tasks[1][i].attempt > 1

TotalInFlight ==
    Cardinality(UNION {{<<p, i>> : i \in InFlight(p)} : p \in constructed})

\* C10: the bound is global: across all documents ingested concurrently
\* through ingest_document_async, the extraction requests in flight never
\* exceed the configured maximum.
C10_InFlightBoundedGlobally == TotalInFlight <= MaxConcurrentLlmCalls

(***************************************************************************)
(* Claims about chunk extraction and ingest_document.                      *)
(***************************************************************************)
\* the chunk tasks of pipeline p whose result is r
TasksWith(p, r) == {i \in 1..Len(tasks[p]) : tasks[p][i].result = r}

\* gather has returned for pipeline p
Gathered(p) == ipc[p] \in {"extracted", "graph_write", "vector_write", "returned"}

\* C11: each chunk's extraction request is attempted at most 3 times; a
\* failing call is retried, so a task ends with the failure only after 3
\* calls; a task that succeeds at a later attempt ends with its unit; a
\* failed task holds no slot, and the step in which a task ends with the
\* failure changes no other chunk's task.
C11_RetriedUpToThreeTimes ==
    /\ [](\A p \in constructed :
            /\ semaphore[p] + Cardinality(InFlight(p)) = MaxConcurrentLlmCalls
            /\ ipc[p] = "extracting" =>
                 \A i \in 1..Len(tasks[p]) :
                    LET task == tasks[p][i]
                    IN /\ task.attempt \in 1..MaxAttempts
                       /\ task.calls <= task.attempt
                       /\ task.result = "failed"
                            => (task.calls = MaxAttempts /\ task.pc = "done")
                       /\ task.pc = "backoff" => task.calls < MaxAttempts
                       /\ (task.pc = "done" /\ task.reply = "unit")
                            => (task.result = "unit" /\ task.unit # None))
    /\ [][\A p \in constructed : \A i \in 1..Len(tasks[p]) :
             (tasks[p][i].result # "failed"
                 /\ Len(tasks'[p]) = Len(tasks[p])
                 /\ tasks'[p][i].result = "failed")
             => \A j \in 1..Len(tasks[p]) : j # i => tasks'[p][j] = tasks[p][j]]_vars

\* one chunk ended with the failure after three calls, another returned its
\* unit at a later attempt, after the first had failed
C11_Witness ==
    /\ ipc[1] = "extracting"
    /\ \E i, j \in 1..Len(tasks[1]) :
          /\ tasks[1][i].result = "failed"
          /\ tasks[1][i].calls = MaxAttempts
          /\ tasks[1][j].result = "unit"
          /\ tasks[1][j].attempt > 1

\* the entries of the vector store that hold chunk i of pipeline p's document
EntriesOf(p, i) ==
    {k \in 1..Len(vstore) : vstore[k].document_id = p /\ vstore[k].chunk = i}

\* C12, read literally: a chunk whose reply was not parseable JSON had
\* exactly one language-model call, its task completed with no unit, and
\* nothing of the chunk is written to a store.
C12_DiscardedLeavesNothing ==
    \A p \in constructed : \A i \in TasksWith(p, "discarded") :
       /\ ipc[p] = "extracting" => tasks[p][i].calls = 1
       /\ tasks[p][i].unit = None
       /\ EntriesOf(p, i) = {}

\* C12, with the earlier failed attempts and the vector store told apart: a
\* reply that is not parseable JSON ends the chunk's task at once with None
\* (no call follows it: the calls made are those of the attempts so far, one
\* if no earlier attempt failed), the task never runs again, no unit of the
\* chunk is among the units handed to the graph write, and the chunk's text
\* is stored in the vector store when the ingestion succeeds.
C12_DiscardedWithoutRetry ==
    /\ [](\A p \in constructed : \A i \in 1..Len(tasks[p]) :
            LET task == tasks[p][i]
            IN /\ task.reply = "unparseable"
                    => /\ task.pc = "done"
                       /\ task.result = "discarded"
                       /\ task.unit = None
                       /\ ipc[p] = "extracting"
                            => (task.calls = task.attempt
                                  /\ (task.attempt = 1 => task.calls = 1))
               /\ task.result = "discarded" => task.reply = "unparseable")
    /\ [](\A p \in constructed :
            /\ Gathered(p) =>
                  Len(extracted[p]) = Cardinality(TasksWith(p, "unit"))
            /\ (ingest_result[p].kind = "result" /\ ingest_result[p].success)
                  => \A i \in TasksWith(p, "discarded") : EntriesOf(p, i) # {})
    /\ [][\A p \in constructed : \A i \in 1..Len(tasks[p]) :
             (tasks[p][i].result = "discarded" /\ Len(tasks'[p]) = Len(tasks[p]))
             => /\ tasks'[p][i].result = "discarded"
                /\ tasks'[p][i].pc = "done"
                /\ tasks'[p][i].unit = None
                /\ tasks'[p][i].calls <= tasks[p][i].calls]_vars

\* an ingestion succeeded with a chunk whose only reply was not parseable
\* and a chunk that yielded a unit
C12_Witness ==
    /\ ipc[1] = "returned"
    /\ ingest_result[1].kind = "result"
    /\ ingest_result[1].success
    /\ TasksWith(1, "discarded") # {}
    /\ TasksWith(1, "unit") # {}
    /\ \A i \in TasksWith(1, "discarded") : EntriesOf(1, i) # {}

\* C13: _extract_knowledge_parallel returns exactly the units of the chunks
\* that succeeded, in chunk order, whatever chunks failed; and when chunking
\* gave at least one chunk and both writes succeeded, ingest_document
\* returns success with the counts of what was extracted, zero entities and
\* relationships when every chunk failed.
C13_ChunkFailuresNeverAbort ==
    \A p \in constructed :
       /\ Gathered(p) =>
             LET ok == Ascending(TasksWith(p, "unit"))
             IN extracted[p] = [k \in 1..Len(ok) |-> tasks[p][ok[k]].unit[1]]
       /\ (ipc[p] = "returned" /\ wpc = "done" /\ vpc = "done")
             => /\ ingest_result[p].kind = "result"
                /\ ingest_result[p].success
                /\ ingest_result[p].num_chunks = Len(tasks[p])
                /\ TasksWith(p, "unit") = {}
                     => (ingest_result[p].num_entities = 0
                           /\ ingest_result[p].num_relationships = 0)

\* every chunk of a document of two or more failed, one by exhausting its
\* attempts and one by an unparseable reply, and the ingestion succeeded
C13_Witness ==
    /\ ipc[1] = "returned"
    /\ Len(tasks[1]) >= 2
    /\ TasksWith(1, "unit") = {}
    /\ TasksWith(1, "failed") # {}
    /\ TasksWith(1, "discarded") # {}
    /\ ingest_result[1] = SuccessResult(Len(tasks[1]), 0, 0)

\* C14: when chunking produces zero chunks ingest_document returns
\* success false with an error, having made no language-model call, no
\* graph write and no vector write: both stores are as they were.
C14_NoChunksNoEffect ==
    \A p \in constructed :
       (ipc[p] # "idle" /\ Len(tasks[p]) = 0)
       => /\ ipc[p] = "no_chunks"
          /\ ingest_result[p] = NoChunksResult
          /\ ~ingest_result[p].success
          /\ writeCalls = 0 /\ runCalls = 0 /\ wpc = "idle"
          /\ addCalls = 0 /\ vpc = "idle"
          /\ vstore = << >>
          /\ [nodes |-> gnodes, edges |-> gedges] \in IngestStores

\* the ingestion of a text without chunks has returned, the graph store
\* holding what an earlier document left
C14_Witness ==
    /\ ipc[1] = "no_chunks"
    /\ ingest_result[1] = NoChunksResult
    /\ gnodes # << >>

\* a step of _write_to_vectorstore or of the return that follows it
VectorStageStep == vpc # "idle" \/ vpc' # "idle"

\* C15: no graph write starts before every chunk task has finished; the
\* vector write starts only after the graph write succeeded; a graph write
\* that failed after its retries leaves the vector write unattempted and
\* the result a failure; a failed vector write gives success false, and
\* nothing the graph write merged is taken back.
C15_StagesInOrder ==
    /\ [](\A p \in constructed :
            /\ (writeCalls > 0 /\ ipc[p] # "idle")
                 => \A i \in 1..Len(tasks[p]) : tasks[p][i].pc = "done"
            /\ vpc # "idle" => wpc = "done"
            /\ wpc = "failed"
                 => /\ vpc = "idle" /\ addCalls = 0 /\ vstore = << >>
                    /\ ipc[p] = "returned"
                         => (ingest_result[p].kind = "result"
                               /\ ~ingest_result[p].success)
            /\ vpc = "failed"
                 => /\ ingest_result[p].kind = "result"
                    /\ ~ingest_result[p].success
                    /\ \A k \in 1..Len(knowledge_graphs) :
                          \A e \in Range(knowledge_graphs[k].entities) :
                             MatchNodes(gnodes, e.name) # {})
    /\ [][VectorStageStep => (gnodes' = gnodes /\ gedges' = gedges)]_vars

\* the vector write failed on every attempt after the graph write had
\* merged Carol, whom no earlier document had named
C15_Witness ==
    /\ vpc = "failed"
    /\ wpc = "done"
    /\ ipc[1] = "returned"
    /\ ~ingest_result[1].success
    /\ MatchNodes(gnodes, "Carol") # {}

(***************************************************************************)
(* Claims about the validation layer.                                      *)
(***************************************************************************)
\* a required field that is absent, or empty once sanitized
EmptyAfterSanitization(v) == v = None \/ sanitize_text(v) = << >>

\* C16: constructing an Entity or a Relationship fails validation whenever
\* name, type, source or target is empty after sanitization (relation_type
\* whenever it is empty), so that no constructed Entity has an empty name or
\* type and no constructed Relationship an empty source or target.
C16_EmptyAfterSanitizationRejected ==
    /\ model_call.fn = "Entity"
         => /\ (EmptyAfterSanitization(model_call.name)
                  \/ EmptyAfterSanitization(model_call.type))
                 => model_result = ValidationError
            /\ model_result.kind = "Entity"
                 => (model_result.name # << >> /\ model_result.type # << >>)
    /\ model_call.fn = "Relationship"
         => /\ (EmptyAfterSanitization(model_call.source)
                  \/ EmptyAfterSanitization(model_call.target)
                  \/ model_call.relation_type \in {None, Some(<< >>)})
                 => model_result = ValidationError
            /\ model_result.kind = "Relationship"
                 => (model_result.source # << >> /\ model_result.target # << >>)

\* the other letter case of a word
OtherCase(t) ==
    CASE t = "ceo" -> "CEO"
      [] t = "CEO" -> "ceo"
      [] t = "of" -> "OF"
      [] t = "OF" -> "of"
      [] t = "works" -> "WORKS"
      [] t = "at" -> "AT"
      [] t = "foo" -> "FOO"
      [] OTHER -> t

\* the relations that differ from relation in letter case only
CaseVariants(relation) ==
    {v \in [1..Len(relation) -> RelationWords \cup RelationSeparators
                                   \cup {"WORKS", "AT", "FOO"}] :
        \A i \in 1..Len(relation) : v[i] \in {relation[i], OtherCase(relation[i])}}

\* C17: normalize_relation_type returns, for every input and without
\* raising, a member of ALLOWED_RELATION_TYPES: the member the cleaned input
\* spells, else the target of the alias it spells (ceo_of and CEO_OF give
\* MANAGES), else RELATED_TO; and the letter case of the input does not
\* matter.
C17_NormalizeTotalAndClosed ==
    model_call.fn = "normalize_relation_type" =>
        LET relation == model_call.relation
            spelt == Cleaned(relation)
        IN /\ model_result.kind = "relation_type"
           /\ model_result.value \in ALLOWED_RELATION_TYPES
           /\ \A n \in ALLOWED_RELATION_TYPES :
                 Spelling(n) = spelt => model_result.value = n
           /\ \A k \in DOMAIN RELATION_MAPPING :
                 Spelling(k) = spelt => model_result.value = RELATION_MAPPING[k]
           /\ (\A n \in ALLOWED_RELATION_TYPES \cup DOMAIN RELATION_MAPPING :
                  Spelling(n) # spelt) => model_result.value = "RELATED_TO"
           /\ relation \in {<<"ceo", "_", "of">>, <<"CEO", "_", "OF">>}
                 => model_result.value = "MANAGES"
           /\ \A v \in CaseVariants(relation) :
                 normalize_relation_type(v) = model_result.value

\* an alias written in mixed case with a blank for the underscore
C17_Witness ==
    /\ model_call.fn = "normalize_relation_type"
    /\ model_call.relation = <<"ceo", " ", "OF">>
    /\ model_result.value = "MANAGES"

\* the indices at which a key occurs for the first time
FirstOccurrences(keys) ==
    {i \in 1..Len(keys) : \A j \in 1..(i - 1) : keys[j] # keys[i]}

EntityKeys(es) == [i \in 1..Len(es) |-> Lower(es[i].name)]

RelationshipKeys(rs) ==
    [i \in 1..Len(rs) |->
        <<Lower(rs[i].source), rs[i].relation_type, Lower(rs[i].target)>>]

\* the subsequence of items that keeps the first occurrence of every key
KeepFirst(items, keys) ==
    LET first == Ascending(FirstOccurrences(keys))
    IN [k \in 1..Len(first) |-> items[first[k]]]

\* C18: in every constructed KnowledgeGraph no two entities share a
\* lower-cased name and no two relationships share (lower(source),
\* relation_type, lower(target)); its lists are the input lists with, for
\* every identity key, the first occurrence kept in input order.
C18_UnitHasNoDuplicates ==
    model_call.fn = "KnowledgeGraph" =>
        LET kg == model_result.value
            ekeys == EntityKeys(kg.entities)
            rkeys == RelationshipKeys(kg.relationships)
        IN /\ \A i, j \in 1..Len(ekeys) : i # j => ekeys[i] # ekeys[j]
           /\ \A i, j \in 1..Len(rkeys) : i # j => rkeys[i] # rkeys[j]
           /\ kg.entities
                 = KeepFirst(model_call.entities, EntityKeys(model_call.entities))
           /\ kg.relationships
                 = KeepFirst(model_call.relationships,
                             RelationshipKeys(model_call.relationships))

\* three entities, two of them one name in two spellings, and two
\* relationships with one key: the later duplicates are gone
C18_Witness ==
    /\ model_call.fn = "KnowledgeGraph"
    /\ Len(model_call.entities) = 3
    /\ model_call.entities[1].name = "Alice"
    /\ model_call.entities[3].name = "alice"
    /\ Len(model_result.value.entities) = 2
    /\ Len(model_call.relationships) = 2
    /\ Len(model_result.value.relationships) = 1

\* C19: the result of sanitize_text is no longer than the limit, holds
\* none of <, > and ; and no two consecutive dashes; for an empty or absent
\* input it is the empty string, and no error is raised.
C19_SanitizedTextIsSafe ==
    model_call.fn = "sanitize_text" =>
        LET out == model_result.value
        IN /\ model_result.kind = "text"
           /\ Len(out) <= SanitizeLimit
           /\ \A i \in 1..Len(out) : out[i] \notin {"<", ">", ";"}
           /\ \A i \in 1..(Len(out) - 1) : ~(out[i] = "-" /\ out[i + 1] = "-")
           /\ model_call.text \in {None, Some(<< >>)} => out = << >>

\* two dashes that a removed character kept apart are gone with it
C19_Witness ==
    /\ model_call.fn = "sanitize_text"
    /\ model_call.text = Some(<<"-", "<", "-", "a">>)
    /\ model_result.value = <<"a">>

(***************************************************************************)
(* Claims about the privilege boundary.                                    *)
(***************************************************************************)
\* every connection the retrieval engine holds, every credential it has
\* asked for and every statement it has issued is on the read-only
\* credential, and it never asked for the write driver
RetrieverIsReadOnly ==
    /\ \A h \in handles["retriever"] : h.auth = NEO4J_RO_USER
    /\ \A q \in requested :
          q.by = "retriever" => (q.auth = NEO4J_RO_USER /\ q.fn # "get_write_graph")
    /\ \A s \in statements : s.auth = NEO4J_RO_USER

\* the driver the pipeline holds is the write driver with the read-write
\* credential
PipelineHoldsWriteDriver ==
    /\ handles["pipeline"] = {Handle("graph_driver", NEO4J_RW_USER)}
    /\ Request("pipeline", "get_write_graph", NEO4J_RW_USER) \in requested

IsStripped(t) == t = << >> \/ (t[1] \notin Whitespace /\ t[Len(t)] \notin Whitespace)

\* t holds nothing the substitutions of sanitize_text remove
IsClean(t) ==
    /\ \A i \in 1..Len(t) : t[i] \notin {"<", ">", ";"}
    /\ \A i \in 1..(Len(t) - 1) : ~(t[i] = "-" /\ t[i + 1] = "-")

\* C29, read literally: for every input the result of sanitize_text has no
\* leading and no trailing whitespace.
C29_ResultIsStripped ==
    model_call.fn = "sanitize_text" => IsStripped(model_result.value)

\* C29, for the inputs nothing is removed from: when the input without its
\* leading and trailing whitespace is no longer than the limit and holds no
\* disallowed character and no run of dashes, the result is that stripped
\* input and so has no leading and no trailing whitespace.
C29_CleanInputIsStripped ==
    (model_call.fn = "sanitize_text" /\ model_call.text # None) =>
        LET s == Strip(model_call.text[1])
        IN (Len(s) <= SanitizeLimit /\ IsClean(s))
              => (model_result.value = s /\ IsStripped(model_result.value))

\* whitespace on both sides of a clean text is gone
C29_Witness ==
    /\ model_call.fn = "sanitize_text"
    /\ model_call.text = Some(<<" ", "a", "B", " ">>)
    /\ model_result.value = <<"a", "B">>

(***************************************************************************)
(* Claims about the two branches of retrieve.                              *)
(***************************************************************************)
\* the vector branch of the call in progress has not completed
VectorBranchRunning == rpc = "vector" /\ request.use_vector_search

\* the graph branch takes its first step
GraphBranchStarts ==
    GraphSearchSyncReturns \/ GraphSearchSyncCatches \/ GraphExecutorRaises

\* C22: with both modes enabled the branches do not block each other:
\* while the vector branch has not completed, also between the attempts of
\* a retried vector search, the graph branch can start.
C22_GraphBranchNotDelayed ==
    (VectorBranchRunning /\ request.use_graph_search) => ENABLED GraphBranchStarts

\* the text a failed graph branch hands to retrieve starts with
StartsWithGraphSearchUnavailable(t) ==
    /\ Len(t) >= 5
    /\ SubSeq(t, 1, 5) = <<"Graph", " ", "search", " ", "unavailable:">>

\* C23: a failure of the graph store, of the translation chain or of the
\* generated query is caught inside _graph_search_sync: the branch hands
\* retrieve a text that starts with "Graph search unavailable", retrieve
\* goes on to the fusion, and when retrieve raises it is the synthesis that
\* failed on its last attempt, never the graph branch.
C23_GraphFailureIsCaught ==
    /\ graphOutcome = "caught"
         => /\ rpc \in {"fusion", "returned", "raised"}
            /\ StartsWithGraphSearchUnavailable(graph_context)
            /\ response.kind = "QueryResponse"
                  => response.graph_context = graph_context
    /\ rpc = "raised" => (synthCalls = MaxAttempts /\ attempt = MaxAttempts)

\* the graph branch failed, the vector branch found nothing, and retrieve
\* returned a response
C23_Witness ==
    /\ graphOutcome = "caught"
    /\ vector_context = << >>
    /\ rpc = "returned"
    /\ response.kind = "QueryResponse"
    /\ StartsWithGraphSearchUnavailable(response.graph_context)

\* C24: a branch the request disables is never invoked. With
\* use_graph_search false no wrapper is built, no chain is invoked and
\* graph_context stays empty; with use_vector_search false no similarity
\* search is made and vector_context stays empty; what the enabled branch
\* returned is in the response as it was returned.
C24_DisabledBranchNotInvoked ==
    /\ [](rpc # "idle" =>
            /\ ~request.use_graph_search
                  => /\ graphOutcome \in {"none", "skipped"}
                     /\ graph_context = << >>
                     /\ graphResult = << >>
            /\ ~request.use_vector_search
                  => /\ vectorOutcome \in {"none", "skipped"}
                     /\ vector_context = << >>
            /\ (response.kind = "QueryResponse" /\ response.sources # << >>)
                  => /\ response.vector_context = vector_context
                     /\ response.graph_context = graph_context
                     /\ graphOutcome = "returned"
                           => response.graph_context = graphResult)
    /\ [][~request'.use_graph_search => UNCHANGED neo4j_graph]_vars
    /\ [][(~request.use_vector_search /\ rpc = "vector")
            => (rpc' = "graph" /\ attempt' = attempt)]_vars

\* a vector-only call has returned what the vector search found, no
\* wrapper having been built
C24_Witness ==
    /\ rpc = "returned"
    /\ ~request.use_graph_search
    /\ request.use_vector_search
    /\ graphOutcome = "skipped"
    /\ neo4j_graph = "none"
    /\ response.kind = "QueryResponse"
    /\ response.vector_context # << >>
    /\ response.graph_context = << >>

(***************************************************************************)
(* Claims about database.py.                                               *)
(***************************************************************************)
\* C21: verify_read_only_permissions returns False whenever the write it
\* attempted succeeded and returns True only when that write was rejected:
\* a connection on which the test node could be created is never reported
\* as read-only.
C21_CreatedIsNeverReadOnly ==
    probe.kind = "call" =>
        /\ probe.created => probe.result = FALSE
        /\ probe.result = TRUE => ~probe.created

\* C28: initialize_neo4j_schema can be repeated: the schema only grows and
\* never holds more than the index and the constraint on the entity name; a
\* call whose session opened issues both statements whether or not one of
\* them failed, raises nothing and leaves what was there together with what
\* the statements that did not fail name, so a call that meets no failure
\* leaves the index and the constraint whatever the calls before it did.
C28_SchemaBootstrapRepeats ==
    /\ [](/\ schema \subseteq {INDEX, CONSTRAINT}
          /\ (schema_call.kind = "call" /\ schema_call.issued # << >>)
                => /\ schema_call.issued = <<INDEX, CONSTRAINT>>
                   /\ ~schema_call.raised
                   /\ schema = schema_call.before
                         \cup ({INDEX, CONSTRAINT} \ schema_call.failed)
                   /\ schema_call.failed = {} => schema = {INDEX, CONSTRAINT}
          /\ (schema_call.kind = "call" /\ schema_call.failed # {})
                => ~schema_call.raised)
    /\ [][schema \subseteq schema']_vars
    /\ [][(schema = {INDEX, CONSTRAINT} /\ schema_calls' # schema_calls)
            => schema' = schema]_vars

\* a first call lost its index statement and still made the constraint; a
\* later call put the index in place
C28_Witness ==
    /\ schema_calls >= 2
    /\ schema_call.kind = "call"
    /\ schema_call.before = {CONSTRAINT}
    /\ schema_call.failed = {}
    /\ schema = {INDEX, CONSTRAINT}

\* C30: the drivers are lazily created singletons. A cached driver is
\* replaced by nothing but close_all, which forgets both and closes them; a
\* driver is created only when its attribute is empty, and is a new one; a
\* getter that returns hands out the cached driver; no cached driver and no
\* driver handed out is closed.
C30_DriversAreSingletons ==
    /\ [](/\ \A d \in CachedDrivers : d.id \notin closed /\ d.id <= next_id
          /\ returned # None
                => (returned[1] \in CachedDrivers /\ returned[1].id \notin closed)
          /\ (write_driver # None /\ read_driver # None)
                => write_driver[1].id # read_driver[1].id)
    /\ [][/\ write_driver # None => write_driver' \in {write_driver, None}
          /\ read_driver # None => read_driver' \in {read_driver, None}]_vars
    /\ [][((write_driver # None /\ write_driver' = None)
              \/ (read_driver # None /\ read_driver' = None))
            => /\ write_driver' = None
               /\ read_driver' = None
               /\ closed' = closed \cup {d.id : d \in CachedDrivers}]_vars
    /\ [][next_id' # next_id
            => /\ next_id' = next_id + 1
               /\ \/ /\ write_driver = None
                     /\ write_driver' # None
                     /\ write_driver'[1].id = next_id'
                     /\ UNCHANGED read_driver
                  \/ /\ read_driver = None
                     /\ read_driver' # None
                     /\ read_driver'[1].id = next_id'
                     /\ UNCHANGED write_driver]_vars
    /\ [][(returned' # returned /\ returned' # None)
            => LET cache == IF returned'[1].auth = NEO4J_RW_USER
                            THEN write_driver ELSE read_driver
               IN cache # None => returned' = cache]_vars

\* after a close_all the first driver is closed, a second write driver was
\* created and a later call got that same driver again
C30_Witness ==
    /\ 1 \in closed
    /\ write_driver # None
    /\ write_driver[1].id > 1
    /\ returned = write_driver
    /\ Request("pipeline", "get_write_graph", NEO4J_RW_USER) \in requested
    /\ next_id = write_driver[1].id + 1

(***************************************************************************)
(* Claims about graph writes that interleave.                              *)
(***************************************************************************)
\* every pipeline has been called and has made its last session.run
AllWritten ==
    /\ Len(cw_batches) = MaxPipelines
    /\ \A p \in 1..Len(cw_pending) : cw_pending[p] = << >>

\* the store after the pipelines wrote one after the other, in the order
\* of their calls
RECURSIVE WrittenInTurn(_, _)
WrittenInTurn(store, batches) ==
    IF batches = << >> THEN store
    ELSE WrittenInTurn(ApplyOps(store, PlannedOps(Head(batches))), Tail(batches))

\* the edges with the names of the entities they join
NamedEdges(nodes, edges) ==
    {[source |-> nodes[e.source].name, target |-> nodes[e.target].name,
      rel_type |-> e.rel_type, description |-> e.description] :
        e \in Range(edges)}

\* C25: ingestions of overlapping content converge: however the batched
\* write operations of the pipelines interleave, the final graph (the set
\* of entity nodes with type and description, and the set of edges) is the
\* one the pipelines leave when they write one after the other.
C25_InterleavingsConverge ==
    AllWritten =>
        LET serial == WrittenInTurn(EmptyStore, cw_batches)
        IN /\ Range(gnodes) = Range(serial.nodes)
           /\ NamedEdges(gnodes, gedges) = NamedEdges(serial.nodes, serial.edges)

(***************************************************************************)
(* Claims about the parsing of the extraction response.                    *)
(***************************************************************************)
\* J in a markdown code fence, the opening fence with or without a tag
Fenced(tag, object) == <<FENCE>> \o tag \o <<"\n", object, "\n", FENCE>>

\* C26: a response that is a JSON object J wrapped in a markdown code fence,
\* with or without a language tag, is stripped of the fence and parsed to
\* the same unit as J alone.
C26_FenceIsStripped ==
    model_call.fn = "parse_response" =>
        \A object \in JsonObjects, tag \in {<< >>, <<"json">>} :
            model_call.content = Fenced(tag, object)
                => model_result = ParseJson(<<object>>)

(***************************************************************************)
(* Claims about the vector write.                                          *)
(***************************************************************************)
\* the entries of the collection that the calls of this run stored
OwnEntries == {i \in 1..Len(vstore) : vstore[i].document_id >= 1}

\* s is the beginning of t
IsPrefix(s, t) == Len(s) <= Len(t) /\ SubSeq(t, 1, Len(s)) = s

\* every attempt hands add_documents one entry per chunk, entry i holding
\* chunk i with chunk_index i counted from zero, the number of chunks and
\* the document_id and filename of the call
SubmittedCarriesLineage ==
    vsubmitted # << >> =>
        /\ Len(vsubmitted) = Len(vcall.chunks)
        /\ \A i \in 1..Len(vsubmitted) :
              /\ vsubmitted[i].page_content = vcall.chunks[i]
              /\ vsubmitted[i].chunk_index = i - 1
              /\ vsubmitted[i].total_chunks = Len(vcall.chunks)
              /\ vsubmitted[i].document_id = vcall.document_id
              /\ vsubmitted[i].filename = vcall.filename

EmptyBatch ==
    AllEntities(knowledge_graphs) = << >>
        /\ AllRelationships(knowledge_graphs) = << >>

\* C31: a batch without entities and relationships makes no session.run
\* call and leaves the store as it was, and the entity statement is issued
\* only with a flattened entity list that is not empty.
C31_EmptyBatchWritesNothing ==
    /\ [](EmptyBatch => (runCalls = 0 /\ pendingOps = << >>))
    /\ [][EmptyBatch => (gnodes' = gnodes /\ gedges' = gedges)]_vars
    /\ [](\A i \in 1..Len(pendingOps) :
             pendingOps[i].kind = "entities" =>
                 /\ AllEntities(knowledge_graphs) # << >>
                 /\ pendingOps[i].entities = AllEntities(knowledge_graphs))

\* _write_to_neo4j returned from a batch of two units that hold nothing
C31_Witness ==
    /\ Len(knowledge_graphs) = 2
    /\ EmptyBatch
    /\ wpc = "done"
    /\ writeCalls = 1
    /\ runCalls = 0

(***************************************************************************)
(* Claims about the slots and the termination of the extraction fan-out.   *)
(***************************************************************************)
\* the chunk tasks of the pipeline that wait for their next attempt
InBackoff(p) == {i \in 1..Len(tasks[p]) : tasks[p][i].pc = "backoff"}

\* the slots of the pipeline's semaphore are held by the attempts that have
\* a request at the language model, and by nobody else
SlotsHeldByAttempts(p) ==
    semaphore[p] + Cardinality(InFlight(p)) = MaxConcurrentLlmCalls

\* C32: a slot is held from the start of an attempt to its end, so the
\* tasks in backoff hold none: the free slots and the attempts in flight
\* always add up to the maximum, a waiting task can start its attempt
\* whenever fewer attempts than the maximum are in flight, and again and
\* again every slot has been given back.
C32_BackoffHoldsNoSlot ==
    /\ [](SlotsHeldByAttempts(1))
    /\ [](Cardinality(InFlight(1)) < MaxConcurrentLlmCalls => SlotFree(1))
    /\ []<>(semaphore[1] = MaxConcurrentLlmCalls)

\* a task waits in backoff while as many other tasks as the semaphore
\* admits are in flight
C32_Witness ==
    /\ InBackoff(1) # {}
    /\ Cardinality(InFlight(1)) = MaxConcurrentLlmCalls
    /\ semaphore[1] = 0

\* how a chunk task can end: with a unit, discarded, or failed
Resolved(task) ==
    task.pc = "done" /\ task.result \in {"unit", "discarded", "failed"}

\* C33: once the chunk tasks are gathered, _extract_knowledge_parallel
\* returns; by then every chunk is resolved and no task holds or awaits a
\* slot, and no chunk ever has more than three language-model calls made
\* for it.
C33_FanOutTerminates ==
    /\ (ipc[1] = "extracting") ~> (ipc[1] = "extracted")
    /\ [](ipc[1] = "extracted" =>
             /\ \A i \in 1..Len(tasks[1]) : Resolved(tasks[1][i])
             /\ semaphore[1] = MaxConcurrentLlmCalls)
    /\ [](\A i \in 1..Len(tasks[1]) : tasks[1][i].calls <= MaxAttempts)

\* more chunks than slots, and the fan-out has returned with one chunk
\* failed, one discarded and one that gave a unit
C33_Witness ==
    /\ ipc[1] = "extracted"
    /\ Len(tasks[1]) > MaxConcurrentLlmCalls
    /\ \E i, j, k \in 1..Len(tasks[1]) :
          /\ tasks[1][i].result = "failed"
          /\ tasks[1][j].result = "discarded"
          /\ tasks[1][k].result = "unit"

\* the chunk tasks whose last reply was valid JSON with a record that failed
\* validation
InvalidReplies == {i \in 1..Len(tasks[1]) : tasks[1][i].reply = "invalid"}

\* C34: a reply with a record that fails validation is never a discard: its
\* task waits and is run again while attempts are left, and ends as failed
\* on the third attempt, without a unit; what the fan-out returns holds one
\* unit for every task that ended with a unit and nothing else.
C34_InvalidRecordIsRetried ==
    /\ \A i \in InvalidReplies :
          LET task == tasks[1][i]
          IN /\ task.result \in {"none", "failed"}
             /\ task.unit = None
             /\ ipc[1] = "extracting" =>
                   /\ task.result = "none" =>
                         task.pc = "backoff" /\ task.attempt < MaxAttempts
                   /\ task.result = "failed" =>
                         task.pc = "done" /\ task.attempt = MaxAttempts
    /\ ipc[1] = "extracted" =>
          Len(extracted[1])
             = Cardinality({i \in 1..Len(tasks[1]) :
                               tasks[1][i].result = "unit"})

\* the fan-out returned one unit from two chunks: the other chunk failed on
\* a reply with an invalid record
C34_Witness ==
    /\ ipc[1] = "extracted"
    /\ Len(tasks[1]) = 2
    /\ \E i \in InvalidReplies : tasks[1][i].result = "failed"
    /\ Len(extracted[1]) = 1

\* the store one execution of the batch that meets no error would leave,
\* started on the store as it is
Target(nodes, edges) ==
    ApplyOps([nodes |-> nodes, edges |-> edges],
             PlannedOps(knowledge_graphs))

\* C35: from the call of _write_to_neo4j to its end, whatever its attempts
\* applied and however they failed, the store an execution without error
\* would leave stays the one it was at the call, and the store a returned
\* call leaves is that store: a write that succeeded after failed attempts
\* leaves what a write that succeeded at once leaves. There are at most
\* three attempts, the call fails only on the third, and no step of a call
\* takes a node or an edge away.
C35_RetriedWriteIsSafe ==
    /\ [][(wpc \in {"running", "backoff"})
             => Target(gnodes', gedges') = Target(gnodes, gedges)]_vars
    /\ []((wpc = "done" /\ writeCalls >= 1)
             => [nodes |-> gnodes, edges |-> gedges] = Target(gnodes, gedges))
    /\ [](wattempt <= MaxAttempts /\ (wpc = "failed" => wattempt = MaxAttempts))
    /\ [][/\ IsPrefix(NodeNames(gnodes), NodeNames(gnodes'))
          /\ IsPrefix(EdgeKeys(gedges), EdgeKeys(gedges'))]_vars

\* the write returned at its third attempt, after attempts that had applied
\* some of the statements, with nodes and edges in the store
C35_Witness ==
    /\ wpc = "done"
    /\ writeCalls = 1
    /\ wattempt = MaxAttempts
    /\ Len(pendingOps) = 0
    /\ runCalls >= 2
    /\ Len(gnodes) >= 2
    /\ Len(gedges) >= 2

(***************************************************************************)
(* Claims about the entries and nodes an ingestion leaves.                 *)
(***************************************************************************)
\* the entries of the collection that carry the document_id of pipeline p
EntriesOfDocument(p) ==
    {i \in 1..Len(vstore) : vstore[i].document_id = p}

\* C36: when ingest_document returns success for a document of n chunks,
\* the vector store holds exactly n entries of that document, whatever the
\* attempts of the vector write before the successful one stored.
C36_SuccessAddsExactlyN ==
    \A p \in constructed :
        (ingest_result[p].kind = "result" /\ ingest_result[p].success)
            => Cardinality(EntriesOfDocument(p)) = Len(tasks[p])

\* C37: the store never holds two entity nodes whose names are equal
\* ignoring letter case.
C37_NodesDistinctIgnoringCase ==
    \A i, j \in 1..Len(gnodes) :
        i # j => Lower(gnodes[i].name) # Lower(gnodes[j].name)

(***************************************************************************)
(* Claims about the relation types that reach the text of a query.         *)
(***************************************************************************)
\* C38: every relation type in the text of a relationship statement, issued
\* or yet to issue, and so the type of every edge of the store, is one of
\* ALLOWED_RELATION_TYPES, whatever relation type the record of the reply
\* carried.
C38_InterpolatedTypesAreCanonical ==
    /\ \A i \in 1..Len(pendingOps) :
          pendingOps[i].kind = "relationships"
             => pendingOps[i].rel_type \in ALLOWED_RELATION_TYPES
    /\ \A j \in 1..Len(gedges) : gedges[j].rel_type \in ALLOWED_RELATION_TYPES

\* a reply spelled the relation "ceo-of": the write has returned and the
\* store holds a MANAGES edge beside the WORKS_AT edge
C38_Witness ==
    /\ model_call.relation_type = Some(<<"ceo", "-", "of">>)
    /\ wpc = "done"
    /\ writeCalls = 1
    /\ \E j \in 1..Len(gedges) : gedges[j].rel_type = "MANAGES"
    /\ \E j \in 1..Len(gedges) : gedges[j].rel_type = "WORKS_AT"

(***************************************************************************)
(* Claims about the drivers handed out and the permission check.           *)
(***************************************************************************)
\* a getter created a driver and raised from its connectivity check
CreatedAndRaised == next_id' = next_id + 1 /\ returned' = None

\* C39: a getter call that creates a driver and raises because the
\* connectivity check failed leaves no driver cached: both class attributes
\* are as they were, so the next call creates and verifies again.
C39_UnverifiedDriverIsNotCached ==
    [][CreatedAndRaised =>
          (write_driver' = write_driver /\ read_driver' = read_driver)]_vars

\* C40: after verify_read_only_permissions has returned, the store holds no
\* TestNode beyond those it held before the call, whether the statements
\* succeeded or failed.
C40_ProbeLeavesNoTestNode ==
    probe.kind = "call" => test_nodes <= probe.before

=============================================================================
